---- MODULE Spec2Model ----
(***************************************************************************)
(* Matter backend (Go): the WebSocket hub, the per-client read and write   *)
(* pumps, the chip-tool command dispatcher and the goroutines it starts.   *)
(*                                                                         *)
(* A client (session) is a number; its outbound queue is the buffered Go   *)
(* channel Client.send.  Every goroutine started by `go` is a task record. *)
(* A subprocess run (cmd.Run) is one blocking step whose result is chosen  *)
(* nondeterministically; every channel send is a step of its own.  A peer  *)
(* is the script of frames it will send, drawn when the run begins.        *)
(***************************************************************************)
EXTENDS Integers, Sequences, FiniteSets, TLC

\* ---------------------------------------------------------------- bounds
\* capacity of Client.send; serveWs makes it 256, the model scales it down
SendCap == 2
\* ticker firings per run
MaxPings == 1
\* lines a subscription subprocess prints on stdout before it exits
MaxLines == 2
\* lines of a discovery output handed to parseDiscoveryOutput on its own
MaxOutLines == 6
\* length of the text after "CHIP:DMG: Value = " handed to the value parser
MaxValLen == 3
\* lines of a subscription's stdout handed to the report parser on its own
MaxReportLines == 5

Clients == {1, 2}

VARIABLES
    peers,      \* the clients that will connect in this run
    inbox,      \* per client: the frames its peer has yet to send
    clients,    \* Hub.clients: the registered sessions
    conn,       \* "none" | "open" | "broken" (peer or network failed) | "closed" (conn.Close called)
    reader,     \* readPump: "off" | "reading" | "unregister" | "closing" | "done"
    writer,     \* writePump: "off" | "running" | "done"
    send,       \* Client.send: the buffered events, oldest first
    closed,     \* Client.send has been closed by close(client.send)
    accepted,   \* per client: how many events Client.send has accepted so far
    wire,       \* history: the events and the close frame writePump wrote, in order
    lastFrame,  \* readPump's messageBytes: the frame read last (or NoFrame)
    npings,     \* ticker firings so far
    tasks,      \* the goroutines started by `go`, in creation order
    batching,   \* which writePump the build carries (the earlier one batches)
    crashed,    \* an unrecovered panic has ended the server process
    mu,         \* Hub.mu: "free" or the goroutine that holds it
    hubAt,      \* where Hub.Run is inside a case of its select
    query,      \* what the last /api/status request saw
    arg,        \* a text fixed for the run: what a parser looked at on its own is
                \* handed, or what chip-tool prints in a scenario
    ret         \* what that parser returned: <<>> before the call, <<value>> after

vars == <<peers, inbox, clients, conn, reader, writer, send, closed, accepted,
          wire, lastFrame, npings, tasks, batching, crashed, mu, hubAt, query,
          arg, ret>>

\* The server's handlers never touch the parser that is looked at on its own.
call == <<arg, ret>>

\* The hub's mutex, the place Hub.Run is at, and the status request.
registry == <<mu, hubAt, query>>

\* ------------------------------------------------------------ messages
\* ServerMessage, reduced to what the dispatcher decides: the type, whether the
\* payload is a plain string (notifyClientLog) or a payload struct, the struct's
\* Success flag ("na" when it has none), a tag for the rest, the Devices of a
\* DiscoveryResultPayload, the Cluster and Attribute of an
\* AttributeUpdatePayload, and the OriginalDiscriminator and NodeID of a
\* CommissioningStatusPayload.
Msg(type, kind, success, info, devices) ==
    [type |-> type, kind |-> kind, success |-> success, info |-> info,
     devices |-> devices, cluster |-> "", attribute |-> "",
     discriminator |-> "", nodeId |-> ""]
LogMsg(type, info) == Msg(type, "text", "na", info, <<>>)
Payload(type, success, info) == Msg(type, "struct", success, info, <<>>)
\* AttributeUpdatePayload{Cluster: clusterName, Attribute: attributeName, Value: value}
\* CommissioningStatusPayload{Success: ..., NodeID: nodeId,
\* OriginalDiscriminator: payload.LongDiscriminator}
CommissioningStatus(success, info, discriminator, nodeId) ==
    [Payload("commissioning_status", success, info)
        EXCEPT !.discriminator = discriminator, !.nodeId = nodeId]
AttributeUpdate(cluster, attribute, info) ==
    [Payload("attribute_update", "na", info) EXCEPT !.cluster = cluster,
                                                    !.attribute = attribute]

\* An entry of payload.Params (map[string]interface{}): no such key, a JSON
\* number (decoded as float64; int is its integer part, frac its first decimal)
\* or a JSON string.
Absent == [t |-> "absent", int |-> 0, frac |-> 0]
Number(i, f) == [t |-> "number", int |-> i, frac |-> f]
Text == [t |-> "string", int |-> 0, frac |-> 0]
\* The number as the peer wrote it.
JsonText(v) ==
    IF v.frac = 0 THEN ToString(v.int) ELSE ToString(v.int) \o "." \o ToString(v.frac)

\* ClientMessage payload: how the JSON value decodes, and the fields used.
NoPayload ==
    [shape |-> "absent", nodeId |-> "", cluster |-> "", command |-> "",
     level |-> Absent, transitionTime |-> Absent, nparams |-> "", setupCode |-> "",
     discriminator |-> "", attribute |-> "", minInterval |-> "", maxInterval |-> "",
     endpointId |-> ""]
Obj(fields) == [f \in DOMAIN NoPayload |->
                  IF f = "shape" THEN "object"
                  ELSE IF f \in DOMAIN fields THEN fields[f] ELSE NoPayload[f]]
Mistyped == [NoPayload EXCEPT !.shape = "mistyped"]

\* strings.ToLower on the cluster and command names in use.
ToLower(s) ==
    CASE s = "OnOff" -> "onoff"
      [] s = "LevelControl" -> "levelcontrol"
      [] s = "On" -> "on"
      [] s = "MoveToLevel" -> "movetolevel"
      [] s = "Identify" -> "identify"
      [] OTHER -> s

\* An inbound frame: bytes json.Unmarshal rejects, or a ClientMessage.
Frame(type, payload) == [malformed |-> FALSE, type |-> type, payload |-> payload]
MalformedFrame == [malformed |-> TRUE, type |-> "", payload |-> NoPayload]
NoFrame == [malformed |-> FALSE, type |-> "none", payload |-> NoPayload]

CmdOn == Obj([nodeId |-> "7", cluster |-> "OnOff", command |-> "On"])
SubOnOff == Obj([nodeId |-> "7", cluster |-> "OnOff", attribute |-> "OnOff",
                 minInterval |-> "1", maxInterval |-> "10"])

\* The frames a peer sends in the single-session runs (discovery and
\* subscriptions apart).
Frames ==
    { MalformedFrame,
      Frame("bogus", NoPayload),
      Frame("commission_device", Obj([setupCode |-> "20202021", discriminator |-> "3840"])),
      Frame("commission_device", Obj([discriminator |-> "3840"])),
      Frame("commission_device", Obj([setupCode |-> "20202021"])),
      Frame("commission_device", Mistyped),
      Frame("device_command", CmdOn),
      Frame("device_command", [CmdOn EXCEPT !.nodeId = ""]),
      Frame("device_command", [CmdOn EXCEPT !.cluster = ""]),
      Frame("device_command", [CmdOn EXCEPT !.command = ""]),
      Frame("device_command", Obj([nodeId |-> "7", cluster |-> "LevelControl",
                                   command |-> "MoveToLevel"])),
      Frame("device_command", Obj([nodeId |-> "7", cluster |-> "Identify",
                                   command |-> "Identify", nparams |-> "1"])),
      Frame("device_command", Mistyped),
      Frame("get_status", Obj([nodeId |-> "7", endpointId |-> "1"])),
      Frame("get_status", NoPayload) }

\* What one peer sends: one frame, a frame after an undecodable one, or an
\* undecodable one after a device command.
Scripts ==
    { <<f>> : f \in Frames }
    \cup { <<MalformedFrame, f>> : f \in { MalformedFrame, Frame("bogus", NoPayload),
                                          Frame("device_command", [CmdOn EXCEPT !.cluster = ""]) } }
    \cup { <<Frame("device_command", CmdOn), MalformedFrame>> }

\* The discovery runs: one session, one discover_devices frame.
DiscoverScripts == { <<Frame("discover_devices", NoPayload)>> }

\* The subscription runs: one session, one subscribe_attribute frame.
SubScripts ==
    { <<Frame("subscribe_attribute", SubOnOff)>>,
      <<Frame("subscribe_attribute", [SubOnOff EXCEPT !.nodeId = ""])>>,
      <<Frame("subscribe_attribute", [SubOnOff EXCEPT !.cluster = ""])>>,
      <<Frame("subscribe_attribute", [SubOnOff EXCEPT !.attribute = ""])>>,
      <<Frame("subscribe_attribute", [SubOnOff EXCEPT !.minInterval = ""])>>,
      <<Frame("subscribe_attribute", [SubOnOff EXCEPT !.maxInterval = ""])>>,
      <<Frame("subscribe_attribute", Mistyped)>> }

\* The same with a request that names its endpoint.
SubStartScripts ==
    SubScripts \cup { <<Frame("subscribe_attribute", [SubOnOff EXCEPT !.endpointId = "2"])>> }

\* The two-session runs: one peer sends a device command or an unknown
\* type, the other an unknown type.
HubScripts ==
    [c \in Clients |->
        IF c = 1 THEN { <<Frame("device_command", CmdOn)>>, <<Frame("bogus", NoPayload)>> }
        ELSE { <<Frame("bogus", NoPayload)>> }]

\* ------------------------------------------------------------- channel
\* The non-blocking send `select { case c.send <- bytes: default: }` on a Go
\* channel: a send on a closed channel panics (also inside a select with a
\* default clause, and also when the buffer is full); otherwise the value is
\* buffered when there is room and the default clause runs when there is none.
Fate(c) ==
    IF closed[c] THEN "panic"
    ELSE IF Len(send[c]) < SendCap THEN "enq"
    ELSE "shed"

\* A faulty receive, for comparison: it takes the newest buffered value.
ChanRecvLast(q) == [msg |-> q[Len(q)], rest |-> SubSeq(q, 1, Len(q) - 1)]
\* `message, ok := <-c.send`: the oldest buffered value and what stays buffered.
ChanRecv(q) == [msg |-> Head(q), rest |-> Tail(q)]

\* A faulty target, for comparison: the other session.
SendTargetOther(tk) == IF tk.client = 1 THEN 2 ELSE 1
\* The session a goroutine's `client` argument points to.
SendTarget(tk) == tk.client

\* An event as it travels: the message, the session whose frame caused it
\* (origin), the goroutine that produced it (0: readPump), its number there,
\* and seq, its position among the events its channel accepted.
Event(m, origin, by, k, seq) ==
    [type |-> m.type, kind |-> m.kind, success |-> m.success, info |-> m.info,
     devices |-> m.devices, cluster |-> m.cluster, attribute |-> m.attribute,
     discriminator |-> m.discriminator, nodeId |-> m.nodeId,
     origin |-> origin, by |-> by, k |-> k, seq |-> seq]

\* c.notifyClient / c.notifyClientLog / c.sendPayload of message m on session
\* c: the queue, the accepted count and the crash flag afterwards.
NotifyEffect(c, m, origin, by, k) ==
    LET e == Event(m, origin, by, k, accepted[c] + 1) IN
    /\ send' = IF Fate(c) = "enq" THEN [send EXCEPT ![c] = Append(@, e)] ELSE send
    /\ accepted' = IF Fate(c) = "enq" THEN [accepted EXCEPT ![c] = @ + 1] ELSE accepted
    /\ crashed' = (Fate(c) = "panic")

\* ------------------------------------------------------------------ Init
\* NewHub and main: no session yet, Hub.Run and the HTTP server are running.
\* Hub.Run waits in its select, nobody holds the mutex, no status request yet.
Idle == [op |-> "select", c |-> 0, step |-> "idle"]

NoQuery == mu = "free" /\ hubAt = Idle /\ query = <<>>

InitWith(P, S) ==
    /\ peers = P
    /\ inbox \in [Clients -> UNION {S[c] : c \in Clients} \cup {<<>>}]
    /\ \A c \in Clients : IF c \in P THEN inbox[c] \in S[c] ELSE inbox[c] = <<>>
    /\ clients = {}
    /\ conn = [c \in Clients |-> "none"]
    /\ reader = [c \in Clients |-> "off"]
    /\ writer = [c \in Clients |-> "off"]
    /\ send = [c \in Clients |-> <<>>]
    /\ closed = [c \in Clients |-> FALSE]
    /\ accepted = [c \in Clients |-> 0]
    /\ wire = [c \in Clients |-> <<>>]
    /\ lastFrame = [c \in Clients |-> NoFrame]
    /\ npings = 0
    /\ tasks = <<>>
    /\ batching \in BOOLEAN
    /\ crashed = FALSE
    /\ NoQuery

\* No parser is looked at on its own.
NoCall == arg = <<>> /\ ret = <<>>

\* One session, any script.
Init == InitWith({1}, [c \in Clients |-> Scripts]) /\ NoCall

\* One session that asks for a discovery.
InitDiscover == InitWith({1}, [c \in Clients |-> DiscoverScripts]) /\ NoCall

\* One session that subscribes.
InitSub == InitWith({1}, [c \in Clients |-> SubScripts]) /\ NoCall

\* Two sessions.
InitHub == InitWith(Clients, HubScripts) /\ NoCall

\* --------------------------------------------------------------- serveWs
\* serveWs: the upgrade succeeded; the Client is built with an empty queue,
\* handed to Hub.Run over hub.register (Hub.Run inserts it into the map), and
\* both pumps are started.  A failed upgrade returns without any effect.
serveWs(c) ==
    /\ ~crashed
    /\ c \in peers
    /\ conn[c] = "none"
    /\ conn' = [conn EXCEPT ![c] = "open"]
    /\ clients' = clients \cup {c}
    /\ reader' = [reader EXCEPT ![c] = "reading"]
    /\ writer' = [writer EXCEPT ![c] = "running"]
    /\ UNCHANGED <<call, registry, peers, inbox, send, closed, accepted, wire, lastFrame,
                   npings, tasks, batching, crashed>>

\* The peer goes away or the network fails (also: no pong within pongWait).
PeerFails(c) ==
    /\ ~crashed
    /\ conn[c] = "open"
    /\ conn' = [conn EXCEPT ![c] = "broken"]
    /\ UNCHANGED <<call, registry, peers, inbox, clients, reader, writer, send, closed,
                   accepted, wire, lastFrame, npings, tasks, batching, crashed>>

\* ----------------------------------------------------------------- Hub.Run
\* ReadMessage returns an error: the loop breaks and the deferred function
\* starts with `c.hub.unregister <- c`, which waits for Hub.Run.
ReadError(c) ==
    /\ ~crashed
    /\ reader[c] = "reading"
    /\ conn[c] \in {"broken", "closed"}
    /\ reader' = [reader EXCEPT ![c] = "unregister"]
    /\ UNCHANGED <<call, registry, peers, inbox, clients, conn, writer, send, closed, accepted,
                   wire, lastFrame, npings, tasks, batching, crashed>>

\* Hub.Run, case client := <-h.unregister: a registered client is deleted from
\* the map and its send channel is closed.
HubUnregister(c) ==
    /\ ~crashed
    /\ reader[c] = "unregister"
    /\ clients' = clients \ {c}
    /\ closed' = [closed EXCEPT ![c] = @ \/ c \in clients]
    /\ reader' = [reader EXCEPT ![c] = "closing"]
    /\ UNCHANGED <<call, registry, peers, inbox, conn, writer, send, accepted, wire, lastFrame,
                   npings, tasks, batching, crashed>>

\* The rest of readPump's deferred function: c.conn.Close().
ReaderClose(c) ==
    /\ ~crashed
    /\ reader[c] = "closing"
    /\ conn' = [conn EXCEPT ![c] = "closed"]
    /\ reader' = [reader EXCEPT ![c] = "done"]
    /\ UNCHANGED <<call, registry, peers, inbox, clients, writer, send, closed, accepted, wire,
                   lastFrame, npings, tasks, batching, crashed>>

\* --------------------------------------------------------------- writePump
CloseFrame(c) == Event(Msg("close", "control", "na", "", <<>>), c, 0, 0, 0)

\* A write on the connection: it succeeds on an open connection, fails on one
\* that was closed locally, and may do either once the peer or network failed.
WriteMay(c, ok) ==
    /\ conn[c] = "open" => ok
    /\ conn[c] = "closed" => ~ok

\* A faulty exit, for comparison: the pump returns and nothing is closed.
WriterExitLeaveOpen(c) ==
    /\ writer' = [writer EXCEPT ![c] = "done"]
    /\ conn' = conn
\* writePump's deferred function: ticker.Stop() and c.conn.Close().  The
\* ticker runs exactly as long as the pump does: writer[c] = "running".
WriterExit(c) ==
    /\ writer' = [writer EXCEPT ![c] = "done"]
    /\ conn' = [conn EXCEPT ![c] = "closed"]

\* The batching writePump drains `n := len(c.send)` further messages.
RECURSIVE TakeN(_, _)
TakeN(q, n) ==
    IF n = 0 \/ q = <<>> THEN [msgs |-> <<>>, rest |-> q]
    ELSE LET r == ChanRecv(q)
             t == TakeN(r.rest, n - 1)
         IN [msgs |-> <<r.msg>> \o t.msgs, rest |-> t.rest]

\* case message, ok := <-c.send with ok true, current writePump: one
\* WriteMessage per event; a write error ends the pump, the event is lost.
WriterEvent(c, ok) ==
    LET r == ChanRecv(send[c]) IN
    /\ ~crashed
    /\ ~batching
    /\ writer[c] = "running"
    /\ send[c] # <<>>
    /\ WriteMay(c, ok)
    /\ send' = [send EXCEPT ![c] = r.rest]
    /\ IF ok
       THEN /\ wire' = [wire EXCEPT ![c] = Append(@, r.msg)]
            /\ UNCHANGED <<writer, conn>>
       ELSE /\ WriterExit(c)
            /\ UNCHANGED wire
    /\ UNCHANGED <<call, registry, peers, inbox, clients, reader, closed, accepted, lastFrame,
                   npings, tasks, batching, crashed>>

\* The earlier writePump: the received message and the len(c.send) messages
\* behind it go into one frame, which w.Close() sends.  On an error the pump
\* ends, the frame is lost, and j messages had been received by then.
WriterBatch(c, ok, j) ==
    LET t == TakeN(send[c], j) IN
    /\ ~crashed
    /\ batching
    /\ writer[c] = "running"
    /\ send[c] # <<>>
    /\ WriteMay(c, ok)
    /\ j \in 1..Len(send[c])
    /\ ok => j = Len(send[c])
    /\ send' = [send EXCEPT ![c] = t.rest]
    /\ IF ok
       THEN /\ wire' = [wire EXCEPT ![c] = @ \o t.msgs]
            /\ UNCHANGED <<writer, conn>>
       ELSE /\ WriterExit(c)
            /\ UNCHANGED wire
    /\ UNCHANGED <<call, registry, peers, inbox, clients, reader, closed, accepted, lastFrame,
                   npings, tasks, batching, crashed>>

\* A faulty queue-closed case, for comparison: it does not wait for the
\* buffered events to be received.
WriterCloseEarly(c, ok) ==
    /\ ~crashed
    /\ writer[c] = "running"
    /\ closed[c]
    /\ WriteMay(c, ok)
    /\ wire' = [wire EXCEPT ![c] = IF ok THEN Append(@, CloseFrame(c)) ELSE @]
    /\ WriterExit(c)
    /\ UNCHANGED <<call, registry, peers, inbox, clients, reader, send, closed, accepted,
                   lastFrame, npings, tasks, batching, crashed>>
\* case message, ok := <-c.send with ok false (closed and drained): a close
\* message is written, its error ignored, and the pump returns.
WriterClose(c, ok) ==
    /\ ~crashed
    /\ writer[c] = "running"
    /\ send[c] = <<>>
    /\ closed[c]
    /\ WriteMay(c, ok)
    /\ wire' = [wire EXCEPT ![c] = IF ok THEN Append(@, CloseFrame(c)) ELSE @]
    /\ WriterExit(c)
    /\ UNCHANGED <<call, registry, peers, inbox, clients, reader, send, closed, accepted,
                   lastFrame, npings, tasks, batching, crashed>>

\* case <-ticker.C: a ping is written; a failed ping ends the pump.
WriterPing(c, ok) ==
    /\ ~crashed
    /\ writer[c] = "running"
    /\ npings < MaxPings
    /\ WriteMay(c, ok)
    /\ npings' = npings + 1
    /\ IF ok THEN UNCHANGED <<writer, conn>> ELSE WriterExit(c)
    /\ UNCHANGED <<call, registry, peers, inbox, clients, reader, send, closed, accepted, wire,
                   lastFrame, tasks, batching, crashed>>

\* ------------------------------------------------------------ dispatcher
\* A straight-line stretch of a goroutine: the events it sends, in order, and
\* the blocking call (or "return") it then stands at.
Seg(todo, pc) == [todo |-> todo, pc |-> pc]

\* json.Unmarshal(payloadBytes, &payload) fails: the payload has the wrong JSON
\* type, or one of its fields has (an absent payload decodes to the zero struct).
DecodeFails(p) == p.shape = "mistyped"

\* A faulty validation, for comparison: it overlooks an empty command name.
DeviceCommandMissingNoCommand(p) == p.nodeId = "" \/ p.cluster = ""
\* device_command: `payload.NodeID == "" || payload.Cluster == "" || payload.Command == ""`
DeviceCommandMissing(p) == p.nodeId = "" \/ p.cluster = "" \/ p.command = ""

\* A faulty validation, for comparison: it lets every setup code through.
CommissionMissingNever(p) == FALSE
\* commission_device: `payload.SetupCode == ""`
CommissionMissing(p) == p.setupCode = ""

\* subscribe_attribute: the five required fields.
SubscribeMissing(p) ==
    \/ p.nodeId = "" \/ p.cluster = "" \/ p.attribute = ""
    \/ p.minInterval = "" \/ p.maxInterval = ""

\* The recognized state-changing commands that trigger `go readAttribute`.
FollowUpRead(p) ==
    \/ p.cluster = "OnOff" /\ p.command \in {"On", "Off", "Toggle"}
    \/ p.cluster = "LevelControl" /\ p.command = "MoveToLevel"

\* device_command, default cluster: one warning per entry of payload.Params.
ParamWarnings(p) ==
    IF p.cluster \notin {"OnOff", "LevelControl"} /\ p.nparams = "1"
    THEN <<LogMsg("command_response", "param_warning")>>
    ELSE <<>>

\* `v, ok := payload.Params[key].(float64)`: ok.
IsFloat64(v) == v.t = "number"
\* strconv.Itoa(int(v)): the conversion drops the fraction.
Itoa(v) == ToString(v.int)
\* What the cluster's case appends to cmdArgs: MoveToLevel's level,
\* transition time (0 unless a number was given) and two option fields; in
\* the default case the value of each entry of Params (one entry, 10, in the
\* frames used here).
ClusterArgs(p) ==
    IF p.cluster = "LevelControl"
    THEN IF p.command = "MoveToLevel"
         THEN <<Itoa(p.level),
                IF IsFloat64(p.transitionTime) THEN Itoa(p.transitionTime) ELSE "0",
                "0", "0">>
         ELSE <<>>
    ELSE IF p.cluster # "OnOff" /\ p.nparams = "1" THEN <<"10">>
    ELSE <<>>
\* cmdArgs of device_command; endpointID is "1".
CommandArgs(p) ==
    <<ToLower(p.cluster), ToLower(p.command)>> \o ClusterArgs(p) \o <<p.nodeId, "1">>

HandleDiscover(p) ==
    Seg(<<LogMsg("discovery_log", "starting")>>, "run_discover")

HandleCommission(p) ==
    IF DecodeFails(p)
    THEN Seg(<<LogMsg("commissioning_log", "invalid_payload"),
               Payload("commissioning_status", "false", "invalid_payload")>>, "return")
    ELSE IF CommissionMissing(p)
    THEN Seg(<<LogMsg("commissioning_log", "missing"),
               CommissioningStatus("false", "missing", p.discriminator, "")>>,
             "return")
    ELSE Seg(<<LogMsg("commissioning_log", "attempting")>>, "getwd")

HandleDeviceCommand(p) ==
    IF DecodeFails(p)
    THEN Seg(<<LogMsg("command_response", "invalid_payload"),
               Payload("command_response", "false", "invalid_payload")>>, "return")
    ELSE IF DeviceCommandMissing(p)
    THEN Seg(<<Payload("command_response", "false", "missing")>>, "return")
    ELSE IF p.cluster = "LevelControl" /\ p.command = "MoveToLevel" /\ ~IsFloat64(p.level)
    THEN Seg(<<Payload("command_response", "false", "missing_level")>>, "return")
    ELSE Seg(ParamWarnings(p) \o <<LogMsg("command_response", "executing")>>,
             "run_command")

\* get_status: `m, ok := msg.Payload.(map[string]interface{})`; the typed
\* payloads that follow have no exported field, so their decoding cannot fail.
HandleGetStatus(p) ==
    IF p.shape \notin {"object", "mistyped"}
    THEN Seg(<<>>, "return")
    ELSE Seg(<<>>, "run_status")

HandleSubscribe(p) ==
    IF DecodeFails(p)
    THEN Seg(<<LogMsg("subscription_log", "invalid_payload"),
               Payload("error", "na", "invalid_subscribe")>>, "return")
    ELSE IF SubscribeMissing(p)
    THEN Seg(<<LogMsg("subscription_log", "missing"),
               Payload("error", "na", "missing_subscribe")>>, "return")
    ELSE Seg(<<LogMsg("subscription_log", "attempting")>>, "sub_start")

HandleDefault(p) ==
    Seg(<<Payload("error", "na", "unknown_type")>>, "return")

\* handleClientMessage, from its entry to the first blocking call or return.
handleClientMessage(msg) ==
    CASE msg.type = "discover_devices" -> HandleDiscover(msg.payload)
      [] msg.type = "commission_device" -> HandleCommission(msg.payload)
      [] msg.type = "device_command" -> HandleDeviceCommand(msg.payload)
      [] msg.type = "get_status" -> HandleGetStatus(msg.payload)
      [] msg.type = "subscribe_attribute" -> HandleSubscribe(msg.payload)
      [] OTHER -> HandleDefault(msg.payload)

\* What cmd.Run() left behind: err (non-zero exit or spawn failure), mark (the
\* captured text has what the caller looks for in it) and timeout
\* (ctx.Err() == context.DeadlineExceeded).
Result(err, mark, timeout) == [err |-> err, mark |-> mark, timeout |-> timeout]
NoResult == Result(FALSE, FALSE, FALSE)

\* A goroutine that has nothing left to send and nothing left to run is done.
Settle(seg) == IF seg.todo = <<>> /\ seg.pc = "return" THEN "done" ELSE seg.pc

\* A goroutine: the Client it was given, the session whose frame started it,
\* that frame, the sends ahead of it, where it stands, how many sends it has
\* made and how each fared, how many subprocesses it has started, what its
\* last cmd.Run() returned, the discovery subprocess it started ("none",
\* "running", "exited" or "killed"), and the locals of a subscription reader.
Goroutine(c, origin, msg, seg) ==
    [client |-> c, origin |-> origin, msg |-> msg, todo |-> seg.todo,
     pc |-> Settle(seg), k |-> 0, runs |-> 0, log |-> <<>>,
     res |-> NoResult, proc |-> "none", lines |-> 0, inReportBlock |-> FALSE,
     nodeId |-> "", argv |-> <<>>]

\* `go handleClientMessage(c, clientMsg)`
NewTask(c, msg) == Goroutine(c, c, msg, handleClientMessage(msg))

\* --------------------------------------------------------------- readPump
\* A faulty reader, for comparison: it stops at a frame that does not decode.
ReadPumpOnFrameBreak(f) ==
    [notify |-> f.malformed, dispatch |-> ~f.malformed, goon |-> ~f.malformed]
\* What readPump does with a frame it has read: json.Unmarshal fails -> one
\* error event and `continue`; otherwise `go handleClientMessage`.
ReadPumpOnFrame(f) ==
    [notify |-> f.malformed, dispatch |-> ~f.malformed, goon |-> TRUE]

\* A faulty reader, for comparison: it calls the handler and goes back to
\* ReadMessage when the handler has returned.
ReaderAfterHandler(c) ==
    \A t \in 1..Len(tasks) : tasks[t].client = c => tasks[t].pc \in {"done", "panic"}
\* `go handleClientMessage(c, clientMsg)`: the loop is back at ReadMessage at
\* once, whatever the goroutines it started are doing.
ReaderFree(c) == TRUE

\* readPump: ReadMessage returns the peer's next frame.
ReadFrame(c) ==
    LET f == Head(inbox[c])
        d == ReadPumpOnFrame(f)
    IN
    /\ ~crashed
    /\ reader[c] = "reading"
    /\ ReaderFree(c)
    /\ conn[c] = "open"
    /\ inbox[c] # <<>>
    /\ inbox' = [inbox EXCEPT ![c] = Tail(@)]
    /\ lastFrame' = [lastFrame EXCEPT ![c] = f]
    /\ IF d.notify
       THEN NotifyEffect(c, Payload("error", "na", "invalid_format"), c, 0,
                         Len(inbox[c]))
       ELSE UNCHANGED <<send, accepted, crashed>>
    /\ tasks' = IF d.dispatch THEN Append(tasks, NewTask(c, f)) ELSE tasks
    /\ reader' = [reader EXCEPT ![c] = IF d.goon THEN "reading" ELSE "unregister"]
    /\ UNCHANGED <<call, registry, peers, clients, conn, writer, closed, wire, npings, batching>>

\* ------------------------------------------------- parseDiscoveryOutput
\* A line of chip-tool's discovery output: whether it carries the "[DIS]"
\* marker, and what follows the marker, read as a key and a value ("node" is
\* the line "Discovered commissionable/commissioner node:").
Line(dis, key, val) == [dis |-> dis, key |-> key, val |-> val]
NodeLine == Line(TRUE, "node", "")

\* currentDevice: nil, or the fields the parser has filled in so far.
NilDevice == [nil |-> TRUE, ID |-> "", Name |-> "", Discriminator |-> "",
              InstanceName |-> "", VendorID |-> "", ProductID |-> ""]
EmptyDevice == [NilDevice EXCEPT !.nil = FALSE]

\* fmt.Sprintf of a format made of literals and %s verbs: the text is the
\* pieces in order, and an empty piece adds nothing to it.
Sprintf(pieces) == SelectSeq(pieces, LAMBDA x : x # "")

\* The ID and the Name a device gets when its block is complete.
DeviceID(d) ==
    IF d.ID # "" THEN Sprintf(<<d.ID>>)
    ELSE IF d.InstanceName # "" THEN Sprintf(<<"dnsd_instance_", d.InstanceName>>)
    ELSE Sprintf(<<"dnsd_vid", d.VendorID, "_pid", d.ProductID, "_disc", d.Discriminator>>)
DeviceName(d) ==
    IF d.Name # "" THEN Sprintf(<<d.Name>>)
    ELSE IF d.InstanceName # "" THEN Sprintf(<<"MatterDevice-", d.InstanceName>>)
    ELSE IF d.VendorID # "" /\ d.ProductID # ""
    THEN Sprintf(<<"MatterDevice-VID", d.VendorID, "-PID", d.ProductID>>)
    ELSE Sprintf(<<"Unknown Matter Device">>)

\* A faulty completeness test, for comparison: any started block counts.
ReportableAny(d) == ~d.nil
\* `currentDevice != nil && (Discriminator != "" || InstanceName != "")`
Reportable(d) == ~d.nil /\ (d.Discriminator # "" \/ d.InstanceName # "")

\* The keys of the else-if chain whose value is copied as a string, and the
\* ones whose value goes through strconv first.
StringKeys == {"Hostname", "IP Address #1", "Mrp Interval idle", "Mrp Interval active",
               "Mrp Active Threshold", "TCP Client Supported", "TCP Server Supported",
               "ICD", "Vendor ID", "Product ID", "Long Discriminator", "Instance Name",
               "Supports Commissioner Generated Passcode"}
NumericKeys == {"Port", "Pairing Hint", "Commissioning Mode"}
Digits == {"0", "1", "2", "3840", "5540"}

\* The device after a key line (extractValueAfterKey gave a non-empty value).
SetField(d, key, val) ==
    CASE key = "Hostname" -> [d EXCEPT !.Name = val]
      [] key = "Vendor ID" -> [d EXCEPT !.VendorID = val]
      [] key = "Product ID" -> [d EXCEPT !.ProductID = val]
      [] key = "Long Discriminator" -> [d EXCEPT !.Discriminator = val]
      [] key = "Instance Name" -> [d EXCEPT !.InstanceName = val]
      [] OTHER -> d

\* The log a key line produces inside a device block.
FieldLogs(key, val) ==
    IF val = "" THEN <<>>
    ELSE IF key \in StringKeys THEN <<LogMsg("discovery_log", "parsed")>>
    ELSE IF key \in NumericKeys
    THEN IF val \in Digits THEN <<LogMsg("discovery_log", "parsed")>>
         ELSE <<LogMsg("discovery_log", "parse_error")>>
    ELSE <<>>

\* A faulty flush, for comparison: the newest device goes to the front.
FlushFront(devices, cur) ==
    IF Reportable(cur)
    THEN <<[cur EXCEPT !.ID = DeviceID(cur), !.Name = DeviceName(cur)]>> \o devices
    ELSE devices
\* `devices = append(devices, *currentDevice)` under the completeness test.
Flush(devices, cur) ==
    IF Reportable(cur)
    THEN Append(devices, [cur EXCEPT !.ID = DeviceID(cur), !.Name = DeviceName(cur)])
    ELSE devices

\* The scan loop: the devices found, the device being filled in, and the log
\* lines sent, in order.
RECURSIVE ScanLines(_, _, _, _)
ScanLines(lines, cur, devices, logs) ==
    IF lines = <<>> THEN [cur |-> cur, devices |-> devices, logs |-> logs]
    ELSE LET l == Head(lines)
             processing == <<LogMsg("discovery_log", "processing")>>
         IN
         IF ~l.dis THEN ScanLines(Tail(lines), cur, devices, logs)
         ELSE IF l.key = "node"
         THEN ScanLines(Tail(lines), EmptyDevice, Flush(devices, cur),
                        logs \o processing
                             \o (IF Reportable(cur)
                                 THEN <<LogMsg("discovery_log", "completed")>> ELSE <<>>)
                             \o <<LogMsg("discovery_log", "new_block")>>)
         ELSE IF cur.nil THEN ScanLines(Tail(lines), cur, devices, logs \o processing)
         ELSE ScanLines(Tail(lines),
                        IF l.val # "" THEN SetField(cur, l.key, l.val) ELSE cur,
                        devices, logs \o processing \o FieldLogs(l.key, l.val))

parseDiscoveryOutput(output) ==
    LET s == ScanLines(output, NilDevice, <<>>, <<>>)
        found == Flush(s.devices, s.cur)
        n == Len(found)
    IN [devices |-> found,
        logs |-> s.logs
                 \o (IF Reportable(s.cur)
                     THEN <<LogMsg("discovery_log", "completed_final")>> ELSE <<>>)
                 \o <<LogMsg("discovery_log",
                             IF n = 0 THEN "no_devices" ELSE "parsed_count")>>]

\* What chip-tool's discovery prints in the runs explored.
DiscoveryOutputs ==
    { <<>>,
      <<Line(FALSE, "", ""), NodeLine>>,
      <<NodeLine, Line(TRUE, "Long Discriminator", "3840")>> }

\* ------------------------------------------------------------- goroutines
Tasks == 1..Len(tasks)

\* One c.notifyClient / notifyClientLog / sendPayload call of goroutine t: the
\* next event of its straight-line code is offered to its client's channel.
TaskSend(t) ==
    LET tk == tasks[t]
        c == SendTarget(tk)
        m == Head(tk.todo)
        rest == Tail(tk.todo)
    IN
    /\ ~crashed
    /\ tk.pc \notin {"done", "panic"}
    /\ tk.todo # <<>>
    /\ NotifyEffect(c, m, tk.origin, t, tk.k + 1)
    /\ tasks' = [tasks EXCEPT ![t] =
          [tk EXCEPT !.todo = rest,
                     !.k = @ + 1,
                     !.log = Append(@, [type |-> m.type, kind |-> m.kind,
                                        success |-> m.success, info |-> m.info,
                                        discriminator |-> m.discriminator,
                                        nodeId |-> m.nodeId,
                                        fate |-> Fate(c)]),
                     !.pc = IF Fate(c) = "panic" THEN "panic"
                            ELSE Settle(Seg(rest, tk.pc))]]
    /\ UNCHANGED <<call, registry, peers, inbox, clients, conn, reader, writer, closed, wire,
                   lastFrame, npings, batching>>

\* Goroutine t stands at the blocking call pc and has sent all before it.
At(t, pc) == tasks[t].pc = pc /\ tasks[t].todo = <<>>

\* Goroutine t goes on with segment seg, r more subprocesses started.
Continue(t, seg, r) ==
    [tasks EXCEPT ![t] = [@ EXCEPT !.todo = seg.todo, !.pc = Settle(seg),
                                   !.runs = @ + r]]

\* cmd.Run() of goroutine t returns res, and t goes on with segment seg.
Ran(t, seg, res) ==
    [tasks EXCEPT ![t] = [@ EXCEPT !.todo = seg.todo, !.pc = Settle(seg),
                                   !.runs = @ + 1, !.res = res]]

\* What a step of a goroutine that sends nothing leaves alone.
Quiet == <<call, registry, peers, inbox, clients, conn, reader, writer, send, closed, accepted,
           wire, lastFrame, npings, batching>>

\* ------------------------------------------------------ discover_devices
\* cmd.Run() returns with stdout `output`; timeout: the context's deadline has
\* passed.  The branch that reports an error is not guarded by `err != nil`:
\* it runs after every discovery, and processing the output follows it.
AfterDiscover(timeout, output) ==
    LET parsed == parseDiscoveryOutput(output) IN
    Seg(<<LogMsg("discovery_log", IF timeout THEN "timed_out" ELSE "error"),
          Msg("discovery_result", "struct", "na", "error", <<>>),
          LogMsg("discovery_log", "finished")>>
        \o parsed.logs
        \o <<Msg("discovery_result", "struct", "na", "devices", parsed.devices)>>,
        "return")

\* cmd.Run() starts the subprocess (exec.CommandContext with the 60 s
\* context) and waits for it; when it cannot be started Run returns the error
\* at once, with nothing captured.
StartDiscover(t, ok) ==
    /\ ~crashed
    /\ At(t, "run_discover")
    /\ tasks' = IF ok
                THEN [tasks EXCEPT ![t] = [@ EXCEPT !.pc = "wait_discover",
                                                    !.runs = @ + 1,
                                                    !.proc = "running"]]
                ELSE Ran(t, AfterDiscover(FALSE, <<>>), Result(TRUE, FALSE, FALSE))
    /\ UNCHANGED <<Quiet, crashed>>

\* A faulty runner, for comparison: at the deadline it stops waiting and
\* leaves the subprocess alone.
ProcAfterAbandon(timeout) == IF timeout THEN "running" ELSE "exited"
\* The subprocess when Run returns: it has exited by itself, or the context's
\* deadline passed and exec.CommandContext killed it; Run has waited for it.
ProcAfter(timeout) == IF timeout THEN "killed" ELSE "exited"

\* cmd.Run() returns.
RunDiscover(t, err, timeout, output) ==
    /\ ~crashed
    /\ At(t, "wait_discover")
    /\ tasks' = [Continue(t, AfterDiscover(timeout, output), 0) EXCEPT
                    ![t].res = Result(err, FALSE, timeout),
                    ![t].proc = ProcAfter(timeout)]
    /\ UNCHANGED <<Quiet, crashed>>

\* ----------------------------------------------------- commission_device
\* os.Getwd() returns; on an error the handler returns without a word.
AfterGetwd(ok) ==
    IF ok THEN Seg(<<LogMsg("commissioning_log", "executing")>>, "run_pairing")
    ELSE Seg(<<>>, "return")

\* n: what `payload.NodeID = fmt.Sprintf("%04d", rand.Intn(100000))` draws.
CommissionGetwd(t, ok, n) ==
    /\ ~crashed
    /\ At(t, "getwd")
    /\ tasks' = [Continue(t, AfterGetwd(ok), 0) EXCEPT
                    ![t].nodeId = IF ok THEN n ELSE ""]
    /\ UNCHANGED <<Quiet, crashed>>

\* A faulty continuation, for comparison: the output is not logged.
AfterPairingSilent == Seg(<<>>, "run_descriptor")
\* The pairing run returns; its error is overwritten by the next run's.
AfterPairing == Seg(<<LogMsg("commissioning_log", "output")>>, "run_descriptor")

\* err: the pairing run exited non-zero or could not be spawned.  It is kept
\* here as the goroutine's result; the handler itself never looks at it.
RunPairing(t, err) ==
    /\ ~crashed
    /\ At(t, "run_pairing")
    /\ tasks' = Ran(t, AfterPairing, Result(err, FALSE, FALSE))
    /\ UNCHANGED <<Quiet, crashed>>

\* The second commissioning_status, sent after `go readAttribute`.  mark: the
\* accumulated output has a success marker.
SecondStatus(p, mark) ==
    IF mark THEN CommissioningStatus("true", "reported", p.discriminator, "")
    ELSE CommissioningStatus("false", "unclear", p.discriminator, "")

\* The descriptor read returns.  match: the accumulated stdout has the
\* parts-list value the regular expression looks for.
AfterDescriptor(p, n, err, match) ==
    IF err /\ ~match
    THEN Seg(<<CommissioningStatus("false", "error", p.discriminator, "")>>, "return")
    ELSE IF ~match THEN Seg(<<>>, "return")
    ELSE Seg(<<CommissioningStatus("true", "commissioned", p.discriminator, n)>>,
             "go_read")

RunDescriptor(t, err, match) ==
    /\ ~crashed
    /\ At(t, "run_descriptor")
    /\ tasks' = Continue(t, AfterDescriptor(tasks[t].msg.payload, tasks[t].nodeId,
                                            err, match), 1)
    /\ UNCHANGED <<Quiet, crashed>>

\* readAttribute, from its entry to cmd.Run().
readAttribute == Seg(<<LogMsg("commissioning_log", "reading")>>, "run_read")

\* A faulty continuation, for comparison: the label read is not started.
CommissionSkipRead(t, mark) ==
    /\ ~crashed
    /\ At(t, "go_read")
    /\ tasks' = Continue(t, Seg(<<SecondStatus(tasks[t].msg.payload, mark)>>,
                                  "return"), 0)
    /\ UNCHANGED <<Quiet, crashed>>
\* `go readAttribute(client, payload.NodeID, "1", "BasicInformation", "NodeLabel")`
\* and the handler's last send.
CommissionGoRead(t, mark) ==
    /\ ~crashed
    /\ At(t, "go_read")
    /\ tasks' = Append(Continue(t, Seg(<<SecondStatus(tasks[t].msg.payload, mark)>>,
                                       "return"), 0),
                       Goroutine(tasks[t].client, tasks[t].origin, tasks[t].msg,
                                 readAttribute))
    /\ UNCHANGED <<Quiet, crashed>>

\* -------------------------------------------------------- device_command
\* A faulty classification, for comparison: it looks at the exit status alone.
AfterCommandExitOnly(p, err, marker) ==
    IF err THEN Seg(<<Payload("command_response", "false", "exec_error")>>, "return")
    ELSE IF FollowUpRead(p)
    THEN Seg(<<Payload("command_response", "true", "")>> \o readAttribute.todo,
             readAttribute.pc)
    ELSE Seg(<<Payload("command_response", "true", "")>>, "return")
\* cmd.Run() returns.  err: non-zero exit or spawn failure; marker: "CHIP
\* Error" in stdout/stderr or "Error:" in stderr.  After a success the
\* follow-up `go readAttribute` is the last thing the handler does.
AfterCommand(p, err, marker) ==
    IF err THEN Seg(<<Payload("command_response", "false", "exec_error")>>, "return")
    ELSE IF marker THEN Seg(<<Payload("command_response", "false", "tool_error")>>, "return")
    ELSE IF FollowUpRead(p)
    THEN Seg(<<Payload("command_response", "true", "")>> \o readAttribute.todo,
             readAttribute.pc)
    ELSE Seg(<<Payload("command_response", "true", "")>>, "return")

RunCommand(t, err, marker) ==
    /\ ~crashed
    /\ At(t, "run_command")
    /\ tasks' = [Ran(t, AfterCommand(tasks[t].msg.payload, err, marker),
                      Result(err, marker, FALSE))
                    EXCEPT ![t].argv = CommandArgs(tasks[t].msg.payload)]
    /\ UNCHANGED <<Quiet, crashed>>

\* The clusterName and attributeName a goroutine's readAttribute was called
\* with: after commissioning, after an OnOff command, after MoveToLevel.
ReadTarget(msg) ==
    IF msg.type = "commission_device"
    THEN [cluster |-> "BasicInformation", attribute |-> "NodeLabel"]
    ELSE IF msg.payload.cluster = "OnOff"
    THEN [cluster |-> "OnOff", attribute |-> "OnOff"]
    ELSE [cluster |-> "LevelControl", attribute |-> "CurrentLevel"]

\* readAttribute: cmd.Run() returns.  found: stdout has a "CHIP:DMG: Value = "
\* line (every such line parses to some value).
AfterRead(target, err, found) ==
    IF err THEN Seg(<<LogMsg("commissioning_log", "read_failed")>>, "return")
    ELSE IF found
    THEN Seg(<<AttributeUpdate(target.cluster, target.attribute, "value")>>, "return")
    ELSE Seg(<<LogMsg("commissioning_log", "no_value"),
               AttributeUpdate(target.cluster, target.attribute, "raw")>>, "return")

RunRead(t, err, found) ==
    /\ ~crashed
    /\ At(t, "run_read")
    /\ tasks' = Ran(t, AfterRead(ReadTarget(tasks[t].msg), err, found),
                     Result(err, found, FALSE))
    /\ UNCHANGED <<Quiet, crashed>>

\* ------------------------------------------------------------ get_status
\* cmd.Run() returns.  match: stdout has "Data = true|false".  With err set
\* and no match the handler returns; with err nil and no match `match[1]`
\* indexes an empty slice, a run-time panic that nothing recovers.
AfterStatus(err, match) ==
    IF err /\ ~match THEN Seg(<<>>, "return")
    ELSE IF ~match THEN Seg(<<>>, "panic")
    ELSE Seg(<<Payload("get_status", "na", "")>>, "return")

RunStatus(t, err, match) ==
    /\ ~crashed
    /\ At(t, "run_status")
    /\ tasks' = Continue(t, AfterStatus(err, match), 1)
    /\ crashed' = (AfterStatus(err, match).pc = "panic")
    /\ UNCHANGED Quiet

\* --------------------------------------------- startAttributeSubscription
\* StdoutPipe, StderrPipe and Start: the first that fails ends the attempt
\* with one log line; otherwise the subprocess runs.
\* A faulty endpoint, for comparison: the request's field as it is.
EndpointAsGiven(p) == p.endpointId
\* `epId := payload.EndpointID; if epId == "" { epId = "1" }`
EndpointOf(p) == IF p.endpointId = "" THEN "1" ELSE p.endpointId

\* cmdArgs of startAttributeSubscription.
SubscribeArgs(p) ==
    <<ToLower(p.cluster), "subscribe", p.attribute, p.minInterval, p.maxInterval,
      p.nodeId, EndpointOf(p)>>

SubStartResults == {"ok", "stdout_pipe", "stderr_pipe", "start"}
AfterSubStart(res) ==
    IF res = "ok" THEN Seg(<<LogMsg("subscription_log", "started")>>, "sub_go")
    ELSE Seg(<<LogMsg("subscription_log", res)>>, "return")

SubStart(t, res) ==
    /\ ~crashed
    /\ At(t, "sub_start")
    /\ tasks' = [Continue(t, AfterSubStart(res), IF res = "ok" THEN 1 ELSE 0) EXCEPT
                    ![t].proc = IF res = "ok" THEN "running" ELSE "none",
                    ![t].argv = SubscribeArgs(tasks[t].msg.payload)]
    /\ UNCHANGED <<Quiet, crashed>>

\* The two `go func()`: the stderr reader is a goroutine of its own, the
\* stdout reader is carried on by t (startAttributeSubscription returns).
SubGo(t) ==
    /\ ~crashed
    /\ At(t, "sub_go")
    /\ tasks' = Append(Continue(t, Seg(<<>>, "sub_stdout"), 0),
                       Goroutine(tasks[t].client, tasks[t].origin, tasks[t].msg,
                                 Seg(<<>>, "sub_stderr")))
    /\ UNCHANGED <<Quiet, crashed>>

\* A line of the subprocess's stdout: "report" matches reReportStart, "data"
\* matches reDataLine, "end" contains "CHIP:DMG: }", "other" none of these.
LineKinds == {"report", "data", "end", "other"}

\* A faulty loop body, for comparison: a data line does not end the block.
OnStdoutLineSticky(inBlock, kind) ==
    IF kind = "report" THEN [inBlock |-> TRUE, update |-> FALSE]
    ELSE IF inBlock /\ kind = "data" THEN [inBlock |-> TRUE, update |-> TRUE]
    ELSE IF inBlock /\ kind = "end" THEN [inBlock |-> FALSE, update |-> FALSE]
    ELSE [inBlock |-> inBlock, update |-> FALSE]
\* The stdout reader's loop body: inReportBlock afterwards, and whether an
\* attribute_update is sent.
OnStdoutLine(inBlock, kind) ==
    IF kind = "report" THEN [inBlock |-> TRUE, update |-> FALSE]
    ELSE IF inBlock /\ kind = "data" THEN [inBlock |-> FALSE, update |-> TRUE]
    ELSE IF inBlock /\ kind = "end" THEN [inBlock |-> FALSE, update |-> FALSE]
    ELSE [inBlock |-> inBlock, update |-> FALSE]

SubStdoutLine(t, kind) ==
    LET r == OnStdoutLine(tasks[t].inReportBlock, kind) IN
    /\ ~crashed
    /\ At(t, "sub_stdout")
    /\ tasks[t].lines < MaxLines
    /\ tasks' = [tasks EXCEPT ![t] =
          [@ EXCEPT !.lines = @ + 1,
                    !.inReportBlock = r.inBlock,
                    !.todo = IF r.update
                             THEN <<AttributeUpdate(tasks[t].msg.payload.cluster,
                                                    tasks[t].msg.payload.attribute,
                                                    "report")>>
                             ELSE <<>>]]
    /\ UNCHANGED <<Quiet, crashed>>

\* scanner.Scan() returns false on stdout: an optional read-error line, then
\* cmd.Wait().
AfterStdoutEnd(scanErr) ==
    Seg(IF scanErr THEN <<LogMsg("subscription_log", "read_error")>> ELSE <<>>,
        "sub_wait")

SubStdoutEnd(t, scanErr) ==
    /\ ~crashed
    /\ At(t, "sub_stdout")
    /\ tasks' = Continue(t, AfterStdoutEnd(scanErr), 0)
    /\ UNCHANGED <<Quiet, crashed>>

\* cmd.Wait() returns: the subprocess has been reaped; the line that says the
\* subscription ended follows.
SubWait(t) ==
    /\ ~crashed
    /\ At(t, "sub_wait")
    /\ tasks' = [Continue(t, Seg(<<LogMsg("subscription_log", "ended")>>, "return"), 0)
                    EXCEPT ![t].proc = "exited"]
    /\ UNCHANGED <<Quiet, crashed>>

\* The stderr reader: every line becomes a log line; the loop ends with the pipe.
SubStderrLine(t) ==
    /\ ~crashed
    /\ At(t, "sub_stderr")
    /\ tasks[t].lines < MaxLines - 1
    /\ tasks' = [tasks EXCEPT ![t] =
          [@ EXCEPT !.lines = @ + 1,
                    !.todo = <<LogMsg("subscription_log", "stderr")>>]]
    /\ UNCHANGED <<Quiet, crashed>>

SubStderrEnd(t) ==
    /\ ~crashed
    /\ At(t, "sub_stderr")
    /\ tasks' = Continue(t, Seg(<<>>, "return"), 0)
    /\ UNCHANGED <<Quiet, crashed>>

\* ------------------------------------------------------------------- Next
\* The sessions' life: connecting, reading, failing, leaving, writing.
Sessions ==
    \/ \E c \in Clients : serveWs(c)
    \/ \E c \in Clients : PeerFails(c)
    \/ \E c \in Clients : ReadFrame(c)
    \/ \E c \in Clients : ReadError(c)
    \/ \E c \in Clients : HubUnregister(c)
    \/ \E c \in Clients : ReaderClose(c)
    \/ \E c \in Clients, ok \in BOOLEAN : WriterEvent(c, ok)
    \/ \E c \in Clients, ok \in BOOLEAN, j \in 1..SendCap : WriterBatch(c, ok, j)
    \/ \E c \in Clients, ok \in BOOLEAN : WriterClose(c, ok)
    \/ \E c \in Clients, ok \in BOOLEAN : WriterPing(c, ok)
    \/ \E t \in Tasks : TaskSend(t)

\* The commission, command and status goroutines.  The pairing run's exit
\* status, which the handler never reads, is varied in SpecPairing.
Next ==
    \/ Sessions
    \/ \E t \in Tasks, err \in BOOLEAN, marker \in BOOLEAN : RunCommand(t, err, marker)
    \/ \E t \in Tasks, err \in BOOLEAN, found \in BOOLEAN : RunRead(t, err, found)
    \/ \E t \in Tasks, err \in BOOLEAN, match \in BOOLEAN : RunStatus(t, err, match)
    \/ \E t \in Tasks, ok \in BOOLEAN : CommissionGetwd(t, ok, "0042")
    \/ \E t \in Tasks : RunPairing(t, FALSE)
    \/ \E t \in Tasks, err \in BOOLEAN, match \in BOOLEAN : RunDescriptor(t, err, match)
    \/ \E t \in Tasks, mark \in BOOLEAN : CommissionGoRead(t, mark)

\* One session and every kind of frame but discover_devices and
\* subscribe_attribute.
Spec == Init /\ [][Next]_vars

\* The discover goroutine.
NextDiscover ==
    \/ Sessions
    \/ \E t \in Tasks, ok \in BOOLEAN : StartDiscover(t, ok)
    \/ \E t \in Tasks, err \in BOOLEAN, timeout \in BOOLEAN, output \in DiscoveryOutputs :
           RunDiscover(t, err, timeout, output)

\* One session that asks for a discovery.
SpecDiscover == InitDiscover /\ [][NextDiscover]_vars

\* The subscription goroutines.
NextSub ==
    \/ Sessions
    \/ \E t \in Tasks, res \in SubStartResults : SubStart(t, res)
    \/ \E t \in Tasks : SubGo(t)
    \/ \E t \in Tasks, kind \in LineKinds : SubStdoutLine(t, kind)
    \/ \E t \in Tasks, scanErr \in BOOLEAN : SubStdoutEnd(t, scanErr)
    \/ \E t \in Tasks : SubWait(t)
    \/ \E t \in Tasks : SubStderrLine(t)
    \/ \E t \in Tasks : SubStderrEnd(t)

\* One session that subscribes to an attribute.
SpecSub == InitSub /\ [][NextSub]_vars

\* A subscription up to the start of its two readers.
InitSubStart == InitWith({1}, [c \in Clients |-> SubStartScripts]) /\ NoCall

NextSubStart ==
    \/ Sessions
    \/ \E t \in Tasks, res \in SubStartResults : SubStart(t, res)
    \/ \E t \in Tasks : SubGo(t)

SpecSubStart == InitSubStart /\ [][NextSubStart]_vars

\* Two sessions, device commands and unknown types.
NextHub ==
    \/ Sessions
    \/ \E t \in Tasks, err \in BOOLEAN, marker \in BOOLEAN : RunCommand(t, err, marker)
    \/ \E t \in Tasks, err \in BOOLEAN, found \in BOOLEAN : RunRead(t, err, found)

SpecHub == InitHub /\ [][NextHub]_vars

\* ------------------------------------- parseDiscoveryOutput on its own
\* The lines a discovery output is made of here: the block marker, key lines
\* with a value, and a key line without one.
OutLines ==
    { NodeLine,
      Line(TRUE, "Long Discriminator", "1234"),
      Line(TRUE, "Long Discriminator", "5678"),
      Line(TRUE, "Long Discriminator", ""),
      Line(TRUE, "Instance Name", "A1B2"),
      Line(TRUE, "Vendor ID", "65521") }

\* Every output of up to MaxOutLines such lines.
OutTexts == UNION { [1..n -> OutLines] : n \in 0..MaxOutLines }

InitParse ==
    /\ InitWith({}, [c \in Clients |-> {<<>>}])
    /\ ~batching
    /\ arg \in OutTexts
    /\ ret = <<>>

\* `discovered := parseDiscoveryOutput(stdout, client)`
CallParse ==
    /\ ret = <<>>
    /\ ret' = <<parseDiscoveryOutput(arg)>>
    /\ UNCHANGED <<arg, registry, peers, inbox, clients, conn, reader, writer, send, closed,
                   accepted, wire, lastFrame, npings, tasks, batching, crashed>>

NextParse == CallParse
SpecParse == InitParse /\ [][NextParse]_vars

\* ------------------------------------------- the two-device discovery
\* chip-tool's output in the scenario of two devices: two blocks, with the
\* long discriminators 1234 and 5678.
TwoBlocks ==
    <<NodeLine, Line(TRUE, "Long Discriminator", "1234"),
      NodeLine, Line(TRUE, "Long Discriminator", "5678")>>

\* One session asks for a discovery; the tool will print TwoBlocks.
InitTwoBlocks ==
    /\ InitWith({1}, [c \in Clients |-> DiscoverScripts])
    /\ arg = TwoBlocks
    /\ ret = <<>>

\* The scenario: the connection works, every write succeeds, and the tool
\* exits 0 before the deadline.
NextTwoBlocks ==
    \/ \E c \in Clients : serveWs(c)
    \/ \E c \in Clients : ReadFrame(c)
    \/ \E c \in Clients : WriterEvent(c, TRUE)
    \/ \E c \in Clients : WriterBatch(c, TRUE, 1)
    \/ \E t \in Tasks : TaskSend(t)
    \/ \E t \in Tasks : StartDiscover(t, TRUE)
    \/ \E t \in Tasks : RunDiscover(t, FALSE, FALSE, arg)

SpecTwoBlocks == InitTwoBlocks /\ [][NextTwoBlocks]_vars

\* ------------------------------------- readAttribute's value parsing
\* A text is a sequence of pieces: single characters (digits, sign, point,
\* double quote, blank) and words that are looked at as a whole.
ValDigits == {"0", "1", "4"}
ValPieces == ValDigits \cup {"-", ".", "\"", " ", "true", "False", "hello", "Raw: "}
ValTexts == UNION { [1..n -> ValPieces] : n \in 0..MaxValLen }

\* strings.TrimSpace and strings.Trim(s, `"`): every leading and every
\* trailing occurrence goes.
RECURSIVE TrimLeft(_, _)
TrimLeft(s, x) == IF s # <<>> /\ Head(s) = x THEN TrimLeft(Tail(s), x) ELSE s
RECURSIVE TrimRight(_, _)
TrimRight(s, x) ==
    IF s # <<>> /\ s[Len(s)] = x THEN TrimRight(SubSeq(s, 1, Len(s) - 1), x) ELSE s
Trim(s, x) == TrimRight(TrimLeft(s, x), x)

\* strconv.ParseBool: these twelve texts and no other.
ParseBool(s) ==
    IF Len(s) = 1 /\ s[1] \in {"1", "t", "T", "TRUE", "true", "True"}
    THEN [ok |-> TRUE, val |-> TRUE]
    ELSE IF Len(s) = 1 /\ s[1] \in {"0", "f", "F", "FALSE", "false", "False"}
    THEN [ok |-> TRUE, val |-> FALSE]
    ELSE [ok |-> FALSE, val |-> FALSE]

\* The number a run of decimal digits stands for.
DigitValue(x) == CASE x = "0" -> 0 [] x = "1" -> 1 [] x = "4" -> 4
RECURSIVE Decimal(_, _)
Decimal(s, acc) ==
    IF s = <<>> THEN acc ELSE Decimal(Tail(s), 10 * acc + DigitValue(Head(s)))

\* strconv.ParseInt(s, 10, 64): an optional sign and at least one digit (a
\* text of MaxValLen pieces stays far inside the 64-bit range).
ParseInt(s) ==
    LET signed == s # <<>> /\ Head(s) \in {"-", "+"}
        body == IF signed THEN Tail(s) ELSE s
        ok == body # <<>> /\ \A i \in 1..Len(body) : body[i] \in ValDigits
    IN [ok |-> ok,
        val |-> IF ~ok THEN 0
                ELSE IF signed /\ Head(s) = "-" THEN 0 - Decimal(body, 0)
                ELSE Decimal(body, 0)]

\* strconv.ParseFloat(s, 64) on texts of these pieces: an optional sign,
\* digits with at most one point among them, and at least one digit.
ParseFloat(s) ==
    LET signed == s # <<>> /\ Head(s) \in {"-", "+"}
        body == IF signed THEN Tail(s) ELSE s
    IN [ok |-> /\ \A i \in 1..Len(body) : body[i] \in ValDigits \cup {"."}
               /\ Cardinality({ i \in 1..Len(body) : body[i] = "." }) <= 1
               /\ \E i \in 1..Len(body) : body[i] \in ValDigits,
        val |-> s]

\* The value of a "CHIP:DMG: Value = " line, from its captured remainder:
\* boolean first, then integer, then float, then the text (without its
\* quotes when it starts and ends with one).
ParseValue(capture) ==
    LET valStr == Trim(capture, " ") IN
    IF ParseBool(valStr).ok THEN [type |-> "bool", val |-> ParseBool(valStr).val]
    ELSE IF ParseInt(valStr).ok THEN [type |-> "int", val |-> ParseInt(valStr).val]
    ELSE IF ParseFloat(valStr).ok THEN [type |-> "float", val |-> ParseFloat(valStr).val]
    ELSE IF valStr # <<>> /\ Head(valStr) = "\"" /\ valStr[Len(valStr)] = "\""
    THEN [type |-> "string", val |-> Trim(valStr, "\"")]
    ELSE [type |-> "string", val |-> valStr]

\* Captured stdout: lines, each with or without the text the regular
\* expression `CHIP:DMG: Value = (.*)` matches, and what follows it (or the
\* whole line when there is no match).
OutLine(marker, text) == [marker |-> marker, text |-> text]
RECURSIVE JoinLines(_)
JoinLines(lines) ==
    IF lines = <<>> THEN <<>>
    ELSE (IF Head(lines).marker THEN <<"CHIP:DMG: Value = ">> ELSE <<>>)
         \o Head(lines).text \o <<"\n">> \o JoinLines(Tail(lines))

\* readAttribute from `reValue.FindStringSubmatch(stdout)` to the payload's
\* Value: the first matching line decides; without one the value is "Raw: "
\* followed by stdout, after a log line.
ValueOf(stdout) ==
    LET at == { i \in 1..Len(stdout) : stdout[i].marker } IN
    IF at # {}
    THEN [parsed |-> TRUE,
          value |-> ParseValue(stdout[CHOOSE i \in at : \A j \in at : i <= j].text),
          logs |-> <<>>]
    ELSE [parsed |-> FALSE,
          value |-> [type |-> "string", val |-> <<"Raw: ">> \o JoinLines(stdout)],
          logs |-> <<LogMsg("commissioning_log", "no_value")>>]

\* The outputs handed to it: nothing, one line with or without the marker, a
\* marker line after another line, and two marker lines.
Stdouts ==
    { <<>> }
    \cup { <<OutLine(m, s)>> : m \in BOOLEAN, s \in ValTexts }
    \cup { <<OutLine(FALSE, <<"hello">>), OutLine(TRUE, s)>> : s \in ValTexts }
    \cup { <<OutLine(TRUE, <<"4">>), OutLine(TRUE, s)>> : s \in {<<"true">>, <<"hello">>} }

InitValue ==
    /\ InitWith({}, [c \in Clients |-> {<<>>}])
    /\ ~batching
    /\ arg \in Stdouts
    /\ ret = <<>>

\* readAttribute's value parsing, applied to arg.
CallValue ==
    /\ ret = <<>>
    /\ ret' = <<ValueOf(arg)>>
    /\ UNCHANGED <<arg, registry, peers, inbox, clients, conn, reader, writer, send, closed,
                   accepted, wire, lastFrame, npings, tasks, batching, crashed>>

NextValue == CallValue
SpecValue == InitValue /\ [][NextValue]_vars

\* ------------------------------- the subscription's stdout reader alone
\* The reader's loop over a whole stream: inReportBlock at the end, and the
\* numbers of the lines at which it sent an attribute_update.
RECURSIVE ScanReport(_, _, _, _)
ScanReport(lines, n, inBlock, updates) ==
    IF lines = <<>> THEN [inBlock |-> inBlock, updates |-> updates]
    ELSE LET r == OnStdoutLine(inBlock, Head(lines)) IN
         ScanReport(Tail(lines), n + 1, r.inBlock,
                    IF r.update THEN Append(updates, n + 1) ELSE updates)

\* Every stream of up to MaxReportLines lines.
ReportStreams == UNION { [1..n -> LineKinds] : n \in 0..MaxReportLines }

InitReport ==
    /\ InitWith({}, [c \in Clients |-> {<<>>}])
    /\ ~batching
    /\ arg \in ReportStreams
    /\ ret = <<>>

\* The stdout reader from `inReportBlock := false` to the end of its loop.
CallReport ==
    /\ ret = <<>>
    /\ ret' = <<ScanReport(arg, 0, FALSE, <<>>)>>
    /\ UNCHANGED <<arg, registry, peers, inbox, clients, conn, reader, writer, send, closed,
                   accepted, wire, lastFrame, npings, tasks, batching, crashed>>

NextReport == CallReport
SpecReport == InitReport /\ [][NextReport]_vars

\* ------------------------------------- the registry and the status request
\* Hub.Run one statement at a time, next to the handler of GET /api/status.
\* serveWs: `client.hub.register <- client` is received by Hub.Run, which takes
\* the mutex; serveWs goes on and starts the two pumps.
RegisterReceive(c) ==
    /\ ~crashed
    /\ c \in peers
    /\ conn[c] = "none"
    /\ hubAt = Idle
    /\ mu = "free"
    /\ mu' = "hub"
    /\ hubAt' = [op |-> "register", c |-> c, step |-> "locked"]
    /\ conn' = [conn EXCEPT ![c] = "open"]
    /\ reader' = [reader EXCEPT ![c] = "reading"]
    /\ writer' = [writer EXCEPT ![c] = "running"]
    /\ UNCHANGED <<call, query, peers, inbox, clients, send, closed, accepted, wire,
                   lastFrame, npings, tasks, batching, crashed>>

\* readPump's `c.hub.unregister <- c` is received by Hub.Run, which takes the mutex.
UnregisterReceive(c) ==
    /\ ~crashed
    /\ reader[c] = "unregister"
    /\ hubAt = Idle
    /\ mu = "free"
    /\ mu' = "hub"
    /\ hubAt' = [op |-> "unregister", c |-> c, step |-> "locked"]
    /\ reader' = [reader EXCEPT ![c] = "closing"]
    /\ UNCHANGED <<call, query, peers, inbox, clients, conn, writer, send, closed,
                   accepted, wire, lastFrame, npings, tasks, batching, crashed>>

\* A faulty removal, for comparison: the delete is left out.
MapAfterNoDelete ==
    IF hubAt.op = "register" THEN clients \cup {hubAt.c} ELSE clients
\* The map as the case's write leaves it: h.clients[client] = true, or
\* delete(h.clients, client).
MapAfter ==
    IF hubAt.op = "register" THEN clients \cup {hubAt.c} ELSE clients \ {hubAt.c}

\* The write to h.clients begins (an unregister of a client that is not in the
\* map writes nothing).
MapWriteBegin ==
    /\ ~crashed
    /\ hubAt.step = "locked"
    /\ hubAt.op = "unregister" => hubAt.c \in clients
    /\ hubAt' = [hubAt EXCEPT !.step = "writing"]
    /\ UNCHANGED <<call, mu, query, peers, inbox, clients, conn, reader, writer, send,
                   closed, accepted, wire, lastFrame, npings, tasks, batching, crashed>>

\* The write to h.clients is complete; the unregister case closes client.send.
MapWriteEnd ==
    /\ ~crashed
    /\ hubAt.step = "writing"
    /\ clients' = MapAfter
    /\ closed' = IF hubAt.op = "unregister" THEN [closed EXCEPT ![hubAt.c] = TRUE]
                 ELSE closed
    /\ hubAt' = [hubAt EXCEPT !.step = "written"]
    /\ UNCHANGED <<call, mu, query, peers, inbox, conn, reader, writer, send, accepted,
                   wire, lastFrame, npings, tasks, batching, crashed>>

\* h.mu.Unlock(), back to the select.
HubUnlock ==
    /\ ~crashed
    /\ \/ hubAt.step = "written"
       \/ hubAt.step = "locked" /\ hubAt.op = "unregister" /\ hubAt.c \notin clients
    /\ mu' = "free"
    /\ hubAt' = Idle
    /\ UNCHANGED <<call, query, peers, inbox, clients, conn, reader, writer, send,
                   closed, accepted, wire, lastFrame, npings, tasks, batching, crashed>>

\* What len(hub.clients) can return: the map's size, and while Hub.Run is
\* writing the map (a data race) the size before or after that write.
LenClients ==
    IF hubAt.step = "writing"
    THEN {Cardinality(clients), Cardinality(MapAfter)}
    ELSE {Cardinality(clients)}

\* GET /api/status: the handler evaluates len(hub.clients) as it is, in gin's
\* request goroutine; it takes no lock.  Recorded: the size it got, who held the
\* mutex at that moment, and whether the map was being written.
ApiStatus(n) ==
    /\ ~crashed
    /\ n \in LenClients
    /\ query' = [websocket_clients |-> n, mu |-> mu, writing |-> hubAt.step = "writing"]
    /\ UNCHANGED <<call, mu, hubAt, peers, inbox, clients, conn, reader, writer, send,
                   closed, accepted, wire, lastFrame, npings, tasks, batching, crashed>>

\* Two sessions that send nothing, and status requests at any time.
InitStatus == InitWith(Clients, [c \in Clients |-> {<<>>}]) /\ NoCall /\ ~batching

NextStatus ==
    \/ \E c \in Clients : RegisterReceive(c)
    \/ \E c \in Clients : PeerFails(c)
    \/ \E c \in Clients : ReadError(c)
    \/ \E c \in Clients : UnregisterReceive(c)
    \/ MapWriteBegin
    \/ MapWriteEnd
    \/ HubUnlock
    \/ \E c \in Clients : ReaderClose(c)
    \/ \E n \in 0..Cardinality(Clients) : ApiStatus(n)

SpecStatus == InitStatus /\ [][NextStatus]_vars

\* ------------------------------------------------- one commissioning
\* One session asks for a commissioning; the pairing run may fail.
PairingScripts ==
    { <<Frame("commission_device",
              Obj([setupCode |-> "20202021", discriminator |-> "3840"]))>> }

InitPairing == InitWith({1}, [c \in Clients |-> PairingScripts]) /\ NoCall

NextPairing ==
    \/ Sessions
    \/ \E t \in Tasks, ok \in BOOLEAN : CommissionGetwd(t, ok, "0042")
    \/ \E t \in Tasks, err \in BOOLEAN : RunPairing(t, err)
    \/ \E t \in Tasks, err \in BOOLEAN, match \in BOOLEAN : RunDescriptor(t, err, match)
    \/ \E t \in Tasks, mark \in BOOLEAN : CommissionGoRead(t, mark)
    \/ \E t \in Tasks, err \in BOOLEAN, found \in BOOLEAN : RunRead(t, err, found)

SpecPairing == InitPairing /\ [][NextPairing]_vars

\* ------------------------------------------ two commissionings at a time
\* What rand.Intn draws for the node id of a pairing run.
NodeIDs == {"0042", "0777"}

\* Two sessions on healthy connections; each asks for a commissioning, with
\* its own discriminator.  The handlers are looked at up to their sends: what
\* the writers do with the queues is left out.
CommissionScripts ==
    [c \in Clients |->
        IF c = 1
        THEN { <<Frame("commission_device",
                       Obj([setupCode |-> "20202021", discriminator |-> "3840"]))>> }
        ELSE { <<Frame("commission_device",
                       Obj([setupCode |-> "20202021", discriminator |-> "1234"]))>>,
               <<Frame("commission_device", Obj([discriminator |-> "1234"]))>> }]

InitCommission == InitWith(Clients, CommissionScripts) /\ NoCall /\ ~batching

NextCommission ==
    \/ \E c \in Clients : serveWs(c)
    \/ \E c \in Clients : ReadFrame(c)
    \/ \E t \in Tasks : TaskSend(t)
    \/ \E t \in Tasks, ok \in BOOLEAN, n \in NodeIDs : CommissionGetwd(t, ok, n)
    \/ \E t \in Tasks, err \in BOOLEAN : RunPairing(t, err)
    \/ \E t \in Tasks, err \in BOOLEAN, match \in BOOLEAN : RunDescriptor(t, err, match)
    \/ \E t \in Tasks, mark \in BOOLEAN : CommissionGoRead(t, mark)

SpecCommission == InitCommission /\ [][NextCommission]_vars

\* ------------------------------------ a command behind a discovery
\* One session on a healthy connection asks for a discovery and then sends a
\* device command.
OrderScripts ==
    { <<Frame("discover_devices", NoPayload), Frame("device_command", CmdOn)>> }

InitOrder == InitWith({1}, [c \in Clients |-> OrderScripts]) /\ NoCall /\ ~batching

\* The discovery subprocess may return (with no output) or stay running.
NextOrder ==
    \/ \E c \in Clients : serveWs(c)
    \/ \E c \in Clients : ReadFrame(c)
    \/ \E c \in Clients : WriterEvent(c, TRUE)
    \/ \E t \in Tasks : TaskSend(t)
    \/ \E t \in Tasks, ok \in BOOLEAN : StartDiscover(t, ok)
    \/ \E t \in Tasks, err \in BOOLEAN : RunDiscover(t, err, FALSE, <<>>)
    \/ \E t \in Tasks, err \in BOOLEAN, marker \in BOOLEAN : RunCommand(t, err, marker)

SpecOrder == InitOrder /\ [][NextOrder]_vars

\* device_command argument vectors: one session, one frame; MoveToLevel with
\* each kind of level and transitionTime entry, an OnOff command and a
\* command of another cluster with one parameter.
MoveToLevelWith(level, tt) ==
    Obj([nodeId |-> "7", cluster |-> "LevelControl", command |-> "MoveToLevel",
         level |-> level, transitionTime |-> tt])
LevelScripts ==
    { <<Frame("device_command", MoveToLevelWith(level, tt))>> :
        level \in {Absent, Text, Number(128, 0), Number(12, 5)},
        tt \in {Absent, Text, Number(5, 0)} }
    \cup { <<Frame("device_command", CmdOn)>>,
           <<Frame("device_command", Obj([nodeId |-> "7", cluster |-> "Identify",
                                          command |-> "Identify", nparams |-> "1"]))>> }
InitLevel == InitWith({1}, [c \in Clients |-> LevelScripts]) /\ NoCall

NextLevel ==
    \/ Sessions
    \/ \E t \in Tasks, err \in BOOLEAN, marker \in BOOLEAN : RunCommand(t, err, marker)
    \/ \E t \in Tasks, err \in BOOLEAN, found \in BOOLEAN : RunRead(t, err, found)

SpecLevel == InitLevel /\ [][NextLevel]_vars

\* ======================================================================
\* Properties
\* ======================================================================
\* The fates of goroutine t's sends so far.
Fates(t) == { tasks[t].log[i].fate : i \in DOMAIN tasks[t].log }

\* What goroutine t has sent and has yet to send in its current stretch, as
\* (type, kind, success) triples in program order.
Triple(m) == [type |-> m.type, kind |-> m.kind, success |-> m.success]
Sends(t) ==
    [i \in 1..(Len(tasks[t].log) + Len(tasks[t].todo)) |->
        IF i <= Len(tasks[t].log) THEN Triple(tasks[t].log[i])
        ELSE Triple(tasks[t].todo[i - Len(tasks[t].log)])]

\* The same with the tag of each message: (type, info) pairs in program order.
Told(t) ==
    [i \in 1..(Len(tasks[t].log) + Len(tasks[t].todo)) |->
        IF i <= Len(tasks[t].log)
        THEN [type |-> tasks[t].log[i].type, info |-> tasks[t].log[i].info]
        ELSE [type |-> tasks[t].todo[i - Len(tasks[t].log)].type,
              info |-> tasks[t].todo[i - Len(tasks[t].log)].info]]

\* The events of a queue or of the wire, without the close frame.
Events(q) == SelectSeq(q, LAMBDA e : e.kind # "control")

\* C1: a send by a command task whose session the registry has removed (its
\* queue is closed) drops the event and returns; no send ever ends in a panic.
C1_SendOnClosedQueueReturns ==
    \A t \in Tasks : "panic" \notin Fates(t)

\* C2: a send by a task that finds the queue holding its full capacity
\* returns at once, discards the event, and leaves the queue as it was.
C2_SendOnFullQueueDrops ==
    [][\A t \in Tasks :
         (tasks'[t].k = tasks[t].k + 1
            /\ Len(send[tasks[t].client]) = SendCap)
         => (send' = send /\ ~crashed' /\ tasks'[t].pc # "panic")]_vars

\* C3: per session, what the writer has put on the wire, followed by what is
\* still queued, is in the order in which the queue accepted it, and no
\* accepted event occurs twice.
C3_WireOrder ==
    \A c \in Clients :
        LET w == Events(wire[c]) \o send[c] IN
        /\ \A i \in 1..Len(w) : w[i].seq \in 1..accepted[c]
        /\ \A i, j \in 1..Len(w) : i < j => w[i].seq < w[j].seq

\* C3's case: a session's wire carries three events, written in batches.
C3_Witness ==
    \E c \in Clients : batching /\ Len(Events(wire[c])) >= 3

C5_FailureStaysLocal ==
    \A c, d \in Clients :
        (c # d /\ conn[c] \in {"broken", "closed"} /\ conn[d] = "open")
        => (~crashed /\ d \in clients)

\* C6: a get_status task whose tool run has returned, and which has sent
\* nothing, has not panicked.
C6_StatusWithoutValueDegrades ==
    \A t \in Tasks :
        (tasks[t].msg.type = "get_status" /\ tasks[t].runs = 1 /\ tasks[t].log = <<>>)
        => tasks[t].pc # "panic"

Recognized == {"discover_devices", "commission_device", "device_command",
               "get_status", "subscribe_attribute"}

\* C8: a goroutine started for an envelope of unknown type sends one error
\* event and nothing else, runs no subprocess and does not panic.
C8_UnknownType ==
    \A t \in Tasks :
        tasks[t].msg.type \notin Recognized
        => /\ tasks[t].runs = 0
           /\ tasks[t].pc \in {"return", "done"}
           /\ Sends(t) = <<[type |-> "error", kind |-> "struct", success |-> "na"]>>

\* C9: a goroutine started for a device_command whose node id, cluster or
\* command is empty sends one command_response with success false, to the
\* session the frame came from, and nothing else; it starts no subprocess and
\* no attribute read.
C9_DeviceCommandMissing ==
    \A t \in Tasks :
        LET p == tasks[t].msg.payload IN
        (tasks[t].msg.type = "device_command" /\ p.shape = "object"
           /\ (p.nodeId = "" \/ p.cluster = "" \/ p.command = ""))
        => /\ tasks[t].runs = 0
           /\ tasks[t].pc \in {"return", "done", "panic"}
           /\ tasks[t].client = tasks[t].origin
           /\ Sends(t) = <<[type |-> "command_response", kind |-> "struct",
                            success |-> "false"]>>

\* C9's case: the rejection of a device_command without a command name has
\* reached the wire of the session that sent it.
C9_Witness ==
    \E t \in Tasks :
        /\ tasks[t].msg.type = "device_command"
        /\ tasks[t].msg.payload.command = ""
        /\ tasks[t].pc = "done"
        /\ \E i \in 1..Len(wire[tasks[t].origin]) :
              /\ wire[tasks[t].origin][i].by = t
              /\ wire[tasks[t].origin][i].type = "command_response"
              /\ wire[tasks[t].origin][i].success = "false"

\* C10: a goroutine started for a commission_device without a setup code
\* sends a log line and one commissioning_status with success false, to the
\* session the frame came from, and nothing else; it starts no subprocess,
\* and no goroutine for an attribute read carries its frame.
C10_CommissionMissingSetupCode ==
    \A t \in Tasks :
        LET p == tasks[t].msg.payload IN
        (tasks[t].msg.type = "commission_device" /\ p.shape # "mistyped"
           /\ p.setupCode = "")
        => /\ tasks[t].runs = 0
           /\ tasks[t].pc \in {"return", "done", "panic"}
           /\ tasks[t].client = tasks[t].origin
           /\ Sends(t) = <<[type |-> "commissioning_log", kind |-> "text",
                            success |-> "na"],
                           [type |-> "commissioning_status", kind |-> "struct",
                            success |-> "false"]>>

\* C10's case: the rejection has reached the wire of the session that sent
\* the frame.
C10_Witness ==
    \E t \in Tasks :
        /\ tasks[t].msg.type = "commission_device"
        /\ tasks[t].msg.payload.setupCode = ""
        /\ tasks[t].pc = "done"
        /\ \E i \in 1..Len(wire[tasks[t].origin]) :
              /\ wire[tasks[t].origin][i].by = t
              /\ wire[tasks[t].origin][i].type = "commissioning_status"
              /\ wire[tasks[t].origin][i].success = "false"


\* C11: a commission_device intent that carries a setup code but no
\* discriminator short-circuits: its goroutine starts no subprocess, never
\* stands at the pairing run, and sends nothing but the log line and the
\* commissioning_status with success false.
C11_CommissionMissingDiscriminator ==
    \A t \in Tasks :
        (/\ tasks[t].msg.type = "commission_device"
         /\ tasks[t].msg.payload.shape = "object"
         /\ tasks[t].msg.payload.setupCode # ""
         /\ tasks[t].msg.payload.discriminator = "")
        => /\ tasks[t].runs = 0
           /\ tasks[t].pc \in {"return", "done", "panic"}
           /\ Sends(t) \subseteq { <<"commissioning_log", "text", "na">>,
                                   <<"commissioning_status", "struct", "false">> }

\* C12: when the cmd.Run() of a validated device_command returns, the handler
\* has exactly one command_response payload ahead of it and none behind it;
\* its success flag is false after a non-zero exit or spawn failure, false
\* after exit 0 with an error marker in the captured text, and true after
\* exit 0 without one; the follow-up read is started in the last case only.
C12_SuccessByResult ==
    [][\A t \in Tasks :
        LET tk == tasks[t]
            nk == tasks'[t]
            finals == { i \in 1..Len(nk.todo) :
                          nk.todo[i].type = "command_response"
                          /\ nk.todo[i].kind = "struct" }
        IN
        (/\ tk.msg.type = "device_command"
         /\ tk.pc = "run_command"
         /\ tk.todo = <<>>
         /\ nk.runs = tk.runs + 1)
        => /\ \A i \in 1..Len(tk.log) :
                 ~(tk.log[i].type = "command_response" /\ tk.log[i].kind = "struct")
           /\ Cardinality(finals) = 1
           /\ \A i \in finals :
                 nk.todo[i].success =
                    (IF nk.res.err THEN "false"
                     ELSE IF nk.res.mark THEN "false"
                     ELSE "true")
           /\ (nk.pc = "run_read") => (~nk.res.err /\ ~nk.res.mark)
           /\ (nk.res.err \/ nk.res.mark) => nk.pc = "return"
      ]_vars

\* An invocation that exited 0 with an error marker in its output, and whose
\* command_response (success false) has reached the session's queue.
C12_Witness ==
    \E t \in Tasks :
        /\ tasks[t].msg.type = "device_command"
        /\ tasks[t].runs = 1
        /\ ~tasks[t].res.err
        /\ tasks[t].res.mark
        /\ tasks[t].pc = "done"
        /\ \E i \in 1..Len(tasks[t].log) :
              /\ tasks[t].log[i].type = "command_response"
              /\ tasks[t].log[i].kind = "struct"
              /\ tasks[t].log[i].success = "false"
              /\ tasks[t].log[i].fate = "enq"

\* C13: a device_command for cluster OnOff with command On, Off or Toggle
\* whose invocation exited 0 without an error marker, whose follow-up read
\* exited 0 and whose sends all found room: its goroutine has put into the
\* session's queue exactly one event of type command_response, with success
\* true, and after it exactly one attribute_update, for OnOff / OnOff.
C13_OnOffScenario ==
    \A t \in Tasks :
        LET tk == tasks[t]
            c == tk.client
            mine == SelectSeq(Events(wire[c]) \o send[c], LAMBDA e : e.by = t)
            resp == { i \in 1..Len(mine) : mine[i].type = "command_response" }
            upd == { i \in 1..Len(mine) : mine[i].type = "attribute_update" }
        IN
        (/\ tk.msg.type = "device_command"
         /\ tk.msg.payload.cluster = "OnOff"
         /\ tk.msg.payload.command \in {"On", "Off", "Toggle"}
         /\ tk.pc = "done"
         /\ tk.runs = 2
         /\ ~tk.res.err
         /\ Fates(t) = {"enq"}
         /\ Len(mine) = Len(tk.log))
        => /\ Cardinality(resp) = 1
           /\ \A i \in resp : mine[i].success = "true"
           /\ Cardinality(upd) = 1
           /\ \A i \in upd : /\ mine[i].cluster = "OnOff"
                             /\ mine[i].attribute = "OnOff"
                             /\ \A j \in resp : j < i

\* The device blocks of the output in arg, read off the text: a block starts
\* at a marker line and runs to the line before the next marker.
BlockStarts == { i \in 1..Len(arg) : arg[i].dis /\ arg[i].key = "node" }
BlockLines(i) ==
    { j \in (i + 1)..Len(arg) : \A m \in BlockStarts : m <= i \/ m > j }
\* The value block i gives for a key: that of its last tagged line with the
\* key and a value, "" if it has none.
BlockValue(i, key) ==
    LET at == { j \in BlockLines(i) : arg[j].dis /\ arg[j].key = key /\ arg[j].val # "" }
    IN IF at = {} THEN ""
       ELSE arg[CHOOSE j \in at : \A m \in at : m <= j].val
\* A block is complete when it has a long discriminator or an instance name.
Complete(i) ==
    BlockValue(i, "Long Discriminator") # "" \/ BlockValue(i, "Instance Name") # ""
CompleteBlocks == { i \in BlockStarts : Complete(i) }
\* The k-th complete block, counted from the top of the output.
KthComplete(k) ==
    CHOOSE i \in CompleteBlocks : Cardinality({ m \in CompleteBlocks : m <= i }) = k

\* C14: for an output in which every device block has a long discriminator
\* or an instance name, the parser returns as many records as there are
\* blocks, the k-th record carries what the k-th block says, and every
\* record's id is a non-empty text.
C14_OneRecordPerBlock ==
    (ret # <<>> /\ arg \in OutTexts /\ CompleteBlocks = BlockStarts)
    => LET devices == ret[1].devices IN
       /\ Len(devices) = Cardinality(BlockStarts)
       /\ \A k \in 1..Len(devices) :
             /\ devices[k].ID # <<>>
             /\ devices[k].ID # ""
             /\ devices[k].Discriminator = BlockValue(KthComplete(k), "Long Discriminator")
             /\ devices[k].InstanceName = BlockValue(KthComplete(k), "Instance Name")

\* An output of two complete blocks, the first with a long discriminator, the
\* second with an instance name only, has been parsed into two records.
C14_Witness ==
    /\ ret # <<>>
    /\ arg = <<NodeLine, Line(TRUE, "Long Discriminator", "1234"),
               NodeLine, Line(TRUE, "Instance Name", "A1B2")>>
    /\ Len(ret[1].devices) = 2

\* C15: whatever the output, the records returned are those of the complete
\* blocks, in order: a block that ends without a long discriminator and
\* without an instance name gives no record, whatever else it holds, and
\* every record has the fields of its own block and of no other.
C15_IncompleteBlockDropped ==
    (ret # <<>> /\ arg \in OutTexts)
    => LET devices == ret[1].devices IN
       /\ Len(devices) = Cardinality(CompleteBlocks)
       /\ \A k \in 1..Len(devices) :
             LET i == KthComplete(k) IN
             /\ devices[k].Discriminator = BlockValue(i, "Long Discriminator")
             /\ devices[k].InstanceName = BlockValue(i, "Instance Name")
             /\ devices[k].VendorID = BlockValue(i, "Vendor ID")

\* A block with a vendor id but neither identifier stands between two
\* complete blocks; two records came back, neither with that vendor id.
C15_Witness ==
    /\ ret # <<>>
    /\ arg = <<NodeLine, Line(TRUE, "Long Discriminator", "1234"),
               NodeLine, Line(TRUE, "Vendor ID", "65521"),
               NodeLine, Line(TRUE, "Instance Name", "A1B2")>>
    /\ Len(ret[1].devices) = 2
    /\ \A k \in 1..2 : ret[1].devices[k].VendorID = ""

\* C16: when the tool has exited 0 before the deadline with the two blocks of
\* long discriminators 1234 and 5678 as its output, every discovery_result
\* the session is given lists exactly two devices, with those discriminators
\* in that order and with two different ids.
C16_TwoDevices ==
    \A t \in Tasks :
        (/\ tasks[t].msg.type = "discover_devices"
         /\ arg = TwoBlocks
         /\ tasks[t].runs = 1
         /\ ~tasks[t].res.err
         /\ ~tasks[t].res.timeout)
        => LET c == tasks[t].client
               given == Events(wire[c]) \o send[c]
           IN \A i \in 1..Len(given) :
                 given[i].type = "discovery_result"
                 => /\ Len(given[i].devices) = 2
                    /\ given[i].devices[1].Discriminator = "1234"
                    /\ given[i].devices[2].Discriminator = "5678"
                    /\ given[i].devices[1].ID # given[i].devices[2].ID

\* C17: a discover goroutine whose run exited 0 before the deadline sends a
\* discovery_result built from the parsed output, sends no discovery_result
\* that carries an error string, and sends no "Error during discovery" log.
C17_NormalCompletionNoError ==
    \A t \in Tasks :
        (/\ tasks[t].msg.type = "discover_devices"
         /\ tasks[t].runs = 1
         /\ ~tasks[t].res.err
         /\ ~tasks[t].res.timeout)
        => /\ \E i \in 1..Len(Told(t)) :
                 Told(t)[i] = [type |-> "discovery_result", info |-> "devices"]
           /\ \A i \in 1..Len(Told(t)) :
                 /\ Told(t)[i] # [type |-> "discovery_result", info |-> "error"]
                 /\ Told(t)[i] # [type |-> "discovery_log", info |-> "error"]

\* C18: when cmd.Run() of a discover goroutine returns because the deadline
\* has passed, the subprocess has been killed, the goroutine goes on and has a
\* discovery_result ahead of it, and what it reports is the "Discovery timed
\* out" line, not the "Error during discovery" line of a run that ended
\* otherwise; a run that ended otherwise reports the latter and not the
\* former.  A discover goroutine that has finished has no subprocess running.
C18_TimeoutKillsAndReports ==
    [][\A t \in Tasks :
        LET tk == tasks[t]
            nk == tasks'[t]
            logs == { nk.todo[i].info : i \in { j \in 1..Len(nk.todo) :
                                                  nk.todo[j].kind = "text" } }
        IN
        /\ (tk.msg.type = "discover_devices" /\ tk.proc = "running" /\ nk.proc # "running")
           => /\ nk.res.timeout => nk.proc = "killed"
              /\ nk.pc = "return"
              /\ \E i \in 1..Len(nk.todo) : nk.todo[i].type = "discovery_result"
              /\ nk.todo[Len(nk.todo)].type = "discovery_result"
              /\ IF nk.res.timeout
                 THEN "timed_out" \in logs /\ "error" \notin logs
                 ELSE "error" \in logs /\ "timed_out" \notin logs
        /\ (nk.msg.type = "discover_devices" /\ nk.pc = "done")
           => nk.proc # "running"
        /\ (tk.msg.type = "discover_devices" /\ tk.proc = "running")
           => (nk.pc = "wait_discover" \/ nk.proc # "running")
      ]_vars

\* A discovery that ran into the deadline: the subprocess was killed and the
\* goroutine has finished, its last discovery_result accepted by the queue.
C18_Witness ==
    \E t \in Tasks :
        /\ tasks[t].msg.type = "discover_devices"
        /\ tasks[t].res.timeout
        /\ tasks[t].proc = "killed"
        /\ tasks[t].pc = "done"
        /\ tasks[t].log[Len(tasks[t].log)].type = "discovery_result"
        /\ tasks[t].log[Len(tasks[t].log)].fate = "enq"

\* C19: for a "Value = " line whose text (blanks at its ends apart) is a
\* decimal signed integer, 0 and 1 and negative numbers among them, the value
\* is an integer, the one the text stands for.
C19_IntegerTextGivesInteger ==
    (/\ ret # <<>>
     /\ Len(arg) = 1
     /\ arg[1].marker
     /\ ParseInt(Trim(arg[1].text, " ")).ok)
    => /\ ret[1].value.type = "int"
       /\ ret[1].value.val = ParseInt(Trim(arg[1].text, " ")).val

\* C20: when stdout has no "Value = " line, the value is the string "Raw: "
\* followed by stdout (the parser returns; it raises nothing); when it has
\* one, the value is not a string that begins with "Raw: ", so that the two
\* outcomes can be told apart by the prefix; and when the line's text is
\* wrapped in double quotes, the value is the string between the quotes.
C20_RawSentinel ==
    ret # <<>>
    => LET v == ret[1].value
           at == { i \in 1..Len(arg) : arg[i].marker }
           t == Trim(arg[1].text, " ")
       IN
       /\ at = {}
          => /\ ~ret[1].parsed
             /\ v.type = "string"
             /\ v.val = <<"Raw: ">> \o JoinLines(arg)
       /\ at # {}
          => /\ ret[1].parsed
             /\ ~(v.type = "string" /\ v.val # <<>> /\ Head(v.val) = "Raw: ")
       /\ (/\ Len(arg) = 1
           /\ arg[1].marker
           /\ Len(t) >= 2
           /\ t[1] = "\""
           /\ t[Len(t)] = "\""
           /\ \A i \in 2..(Len(t) - 1) : t[i] # "\"")
          => /\ v.type = "string"
             /\ v.val = SubSeq(t, 2, Len(t) - 1)

\* The report blocks of the stream in arg, read off the text: a block is open
\* after line i when some marker line at or before i has no data line and no
\* terminator after it up to i.
OpenAfter(i) ==
    \E m \in 1..i : /\ arg[m] = "report"
                    /\ \A j \in (m + 1)..i : arg[j] \notin {"data", "end"}
\* The data lines that come first in an open block.
FirstDataLines == { j \in 1..Len(arg) : arg[j] = "data" /\ OpenAfter(j - 1) }
\* The terminators that close a block in which no data line was seen.
EmptyBlockEnds == { j \in 1..Len(arg) : arg[j] = "end" /\ OpenAfter(j - 1) }

\* C21: over any stream of stdout lines the reader sends one attribute_update
\* at the first data line of each report block and nowhere else (none for a
\* block whose terminator comes before a data line), and it is idle after a
\* block's data line and after a block's terminator.
C21_OneUpdatePerReport ==
    (ret # <<>> /\ arg \in ReportStreams)
    => LET sent == ret[1].updates IN
       /\ { sent[k] : k \in 1..Len(sent) } = FirstDataLines
       /\ Len(sent) = Cardinality(FirstDataLines)
       /\ \A k \in 1..Len(sent) : \A j \in 1..Len(sent) : k < j => sent[k] < sent[j]
       /\ \A j \in EmptyBlockEnds : \A k \in 1..Len(sent) : sent[k] # j
       /\ ret[1].inBlock = OpenAfter(Len(arg))
       /\ (Len(arg) > 0 /\ Len(arg) \in FirstDataLines \cup EmptyBlockEnds)
          => ~ret[1].inBlock

\* A stream with a block that has a data line, a block that ends without
\* one, and a data line outside any block: one update, at line 2.
C21_Witness ==
    /\ ret # <<>>
    /\ arg = <<"report", "data", "report", "end", "data">>
    /\ ret[1].updates = <<2>>
    /\ ~ret[1].inBlock

\* C22: a subscription's stdout reader that has seen the end of its stream
\* and has stopped has reaped the subprocess and has sent the line that says
\* the subscription ended, once; no reader sends that line twice or sends an
\* attribute_update after it; and a subscription whose subprocess could not
\* be started has no reader goroutine, no such line and no update.
C22_SubscriptionEnds ==
    \A t \in Tasks :
        LET tk == tasks[t]
            told == Told(t)
            ended == { i \in 1..Len(told) : told[i].info = "ended" }
            sentEnded == { i \in 1..Len(tk.log) :
                             tk.log[i].info = "ended" /\ tk.log[i].fate # "panic" }
        IN
        tk.msg.type = "subscribe_attribute"
        => /\ Cardinality(ended) <= 1
           /\ \A i \in ended : \A j \in 1..Len(told) :
                 told[j].type = "attribute_update" => j < i
           /\ (/\ tk.proc # "none"
               /\ tk.pc \in {"done", "panic"}
               /\ \E i \in 1..Len(tk.log) : tk.log[i].info \in {"read_error", "ended"})
              => (tk.proc = "exited" /\ Cardinality(sentEnded) = 1)
           /\ (tk.proc = "none" /\ tk.runs = 0 /\ tk.pc \in {"done", "return"}
               /\ tk.lines = 0 /\ t = 1)
              => /\ Len(tasks) = 1
                 /\ ended = {}
                 /\ \A j \in 1..Len(told) : told[j].type # "attribute_update"

\* C23: the map of registered sessions is never read while it is being
\* written: Hub.Run holds the hub's mutex whenever it writes the map, and no
\* status request reads the map's size during such a write (which is what
\* taking the mutex for the read would give).
C23_MapAccessUnderMutex ==
    /\ hubAt.step = "writing" => mu = "hub"
    /\ query # <<>> => ~query.writing

\* C24: a commission_device goroutine whose pairing run exited non-zero or
\* could not be spawned sends no commissioning_status with success true,
\* whatever the descriptor read returns, and once it has returned it has sent
\* the commissioning_status with success false that carries the captured
\* output as details.
C24_PairingFailureReported ==
    \A t \in Tasks :
        LET tk == tasks[t]
            sent == Sends(t)
            told == Told(t)
        IN
        (tk.msg.type = "commission_device" /\ tk.runs >= 1 /\ tk.res.err
         /\ told[1].info = "attempting")
        => /\ \A i \in 1..Len(sent) :
                 sent[i].type = "commissioning_status" => sent[i].success # "true"
           /\ tk.pc \in {"return", "done"}
              => \E i \in 1..Len(told) :
                    told[i] = [type |-> "commissioning_status", info |-> "error"]

\* The commission_device handler goroutines that have run the pairing command.
Paired ==
    { t \in Tasks : /\ tasks[t].msg.type = "commission_device"
                    /\ tasks[t].runs >= 1
                    /\ Told(t)[1].info = "attempting" }

\* C25: a commission_device handler that has run the pairing command sends the
\* commissioning_log with the run's captured output before every
\* commissioning_status it sends, and on the wire no commissioning_status of
\* that handler comes before its output log.
C25_OutputLogBeforeStatus ==
    \A t \in Paired :
        LET told == Told(t)
            c == tasks[t].client
        IN
        /\ \E i \in 1..Len(told) :
              /\ told[i] = [type |-> "commissioning_log", info |-> "output"]
              /\ \A j \in 1..Len(told) :
                    told[j].type = "commissioning_status" => i < j
        /\ \A i, j \in 1..Len(wire[c]) :
              (/\ wire[c][i].by = t /\ wire[c][j].by = t
               /\ wire[c][i].type = "commissioning_status"
               /\ wire[c][j].info = "output")
              => j < i

\* A handler's output log and its commissioning_status have both been written
\* to the peer.
C25_Witness ==
    \E t \in Paired :
        \E i, j \in 1..Len(wire[tasks[t].client]) :
            LET w == wire[tasks[t].client] IN
            /\ w[i].by = t /\ w[i].info = "output"
            /\ w[j].by = t /\ w[j].type = "commissioning_status"

\* The commissioning_status payloads goroutine t has sent or has yet to send
\* in its current stretch.
Statuses(t) ==
    { [success |-> tasks[t].log[i].success, info |-> tasks[t].log[i].info,
       discriminator |-> tasks[t].log[i].discriminator,
       nodeId |-> tasks[t].log[i].nodeId] :
         i \in { j \in 1..Len(tasks[t].log) :
                   tasks[t].log[j].type = "commissioning_status" } }
    \cup
    { [success |-> tasks[t].todo[i].success, info |-> tasks[t].todo[i].info,
       discriminator |-> tasks[t].todo[i].discriminator,
       nodeId |-> tasks[t].todo[i].nodeId] :
         i \in { j \in 1..Len(tasks[t].todo) :
                   tasks[t].todo[j].type = "commissioning_status" } }

\* C26: every commissioning_status of a commission_device handler whose
\* payload was decoded carries the discriminator of that handler's own
\* request, never the one of another handler's request when the two differ,
\* and a status with success true carries the node id that handler passed to
\* its own pairing run.
C26_StatusCorrelation ==
    \A t \in Tasks :
        (tasks[t].msg.type = "commission_device"
         /\ tasks[t].msg.payload.shape = "object")
        => \A s \in Statuses(t) :
              /\ s.discriminator = tasks[t].msg.payload.discriminator
              /\ \A u \in Tasks :
                    (tasks[u].msg.payload.discriminator
                        # tasks[t].msg.payload.discriminator)
                    => s.discriminator # tasks[u].msg.payload.discriminator
              /\ s.success = "true"
                 => (tasks[t].nodeId \in NodeIDs /\ s.nodeId = tasks[t].nodeId)

\* The goroutines that run handleClientMessage for a subscribe_attribute whose
\* payload was decoded (the stderr reader of a subscription is not one).
Subscribers ==
    { t \in Tasks : /\ tasks[t].msg.type = "subscribe_attribute"
                    /\ tasks[t].msg.payload.shape = "object"
                    /\ Len(Told(t)) >= 1
                    /\ Told(t)[1].info \in {"attempting", "missing"} }

\* C27: a subscribe_attribute handler whose request lacks the node id, the
\* cluster, the attribute, the minimum or the maximum interval sends an error
\* event and starts no subprocess; when all five are there it builds one
\* subscribe invocation with the request's interval bounds and the request's
\* endpoint id, "1" when the request has none, and the subprocess it starts
\* is that one and no other.
C27_SubscribeValidation ==
    \A t \in Subscribers :
        LET tk == tasks[t]
            p == tk.msg.payload
            sent == Sends(t)
        IN
        IF \E f \in {"nodeId", "cluster", "attribute", "minInterval", "maxInterval"} :
              p[f] = ""
        THEN /\ tk.runs = 0 /\ tk.proc = "none" /\ tk.argv = <<>>
             /\ tk.pc \in {"return", "done", "panic"}
             /\ \E i \in 1..Len(sent) : sent[i].type = "error"
        ELSE /\ tk.runs <= 1
             /\ (tk.runs = 1) = (tk.proc # "none")
             /\ tk.pc = "sub_start" => tk.argv = <<>>
             /\ tk.pc \notin {"sub_start", "panic"}
                => /\ Len(tk.argv) = 7
                   /\ tk.argv[2] = "subscribe"
                   /\ tk.argv[4] = p.minInterval /\ tk.argv[5] = p.maxInterval
                   /\ tk.argv[7] = (IF p.endpointId = "" THEN "1" ELSE p.endpointId)
             /\ tk.pc \in {"sub_go", "sub_stdout", "sub_wait"} => tk.runs = 1

\* A subscription whose request has no endpoint id is running on endpoint "1".
C27_Witness ==
    \E t \in Subscribers :
        /\ tasks[t].pc = "sub_stdout"
        /\ tasks[t].runs = 1
        /\ tasks[t].msg.payload.endpointId = ""
        /\ tasks[t].argv[7] = "1"

\* A step of the writer of a session the hub has removed.
RemovedWriterStep(c) ==
    /\ closed[c]
    /\ writer[c] = "running"
    /\ (send'[c] # send[c] \/ writer'[c] = "done" \/ npings' # npings)

\* C28 as first written: the writer of a session that the hub has removed
\* ends through the queue-closed case alone, once the queue is empty and
\* with the close frame as its last write; up to then each of its writes
\* puts the oldest buffered events on the wire, in order.
C28_DrainThenClose ==
    [][\A c \in Clients :
        RemovedWriterStep(c)
        => /\ writer'[c] = "done" => (send[c] = <<>> /\ npings' = npings)
           /\ Len(send'[c]) < Len(send[c])
              => wire'[c] = wire[c] \o SubSeq(send[c], 1, Len(send[c]) - Len(send'[c]))
      ]_vars

\* C28: the writer of a session that the hub has removed puts the buffered
\* events on the wire in order for as long as its writes succeed; it writes
\* the close frame only when the queue is empty and ends with that write; a
\* write that fails ends it with nothing written; and on the wire nothing
\* follows a close frame.
C28_DrainWhileWritable ==
    [][\A c \in Clients :
        RemovedWriterStep(c)
        => /\ writer'[c] = "running"
              => wire'[c] = wire[c] \o SubSeq(send[c], 1, Len(send[c]) - Len(send'[c]))
           /\ writer'[c] = "done"
              => \/ wire'[c] = wire[c]
                 \/ /\ send[c] = <<>>
                    /\ npings' = npings
                    /\ wire'[c] = Append(wire[c], CloseFrame(c))
           /\ \A i \in 1..Len(wire'[c]) :
                 wire'[c][i].kind = "control" => i = Len(wire'[c])
      ]_vars

\* A removed session's writer has ended with the close frame behind an event,
\* before the reader has closed the connection.
C28_Witness ==
    \E c \in Clients :
        /\ closed[c]
        /\ writer[c] = "done"
        /\ reader[c] = "closing"
        /\ Len(wire[c]) >= 2
        /\ wire[c][Len(wire[c])] = CloseFrame(c)
        /\ wire[c][Len(wire[c]) - 1].kind # "control"

C30_ReaderNeverWaits ==
    [][\A c \in Clients :
        /\ (~crashed /\ reader[c] = "reading" /\ conn[c] = "open" /\ inbox[c] # <<>>)
           => ENABLED ReadFrame(c)
        /\ (inbox'[c] # inbox[c] /\ ~Head(inbox[c]).malformed)
           => /\ Len(tasks') = Len(tasks) + 1
              /\ SubSeq(tasks', 1, Len(tasks)) = tasks
              /\ tasks'[Len(tasks')].msg = Head(inbox[c])
              /\ tasks'[Len(tasks')].client = c
              /\ tasks'[Len(tasks')].log = <<>>
              /\ reader'[c] = "reading"
      ]_vars

\* The command_response of a device_command read after a discover_devices is
\* in the session's queue or on its wire while the discovery subprocess is
\* still running and no discovery_result has been sent.
C30_Witness ==
    \E t, u \in Tasks :
        /\ t < u
        /\ tasks[t].client = tasks[u].client
        /\ tasks[t].msg.type = "discover_devices"
        /\ tasks[t].pc = "wait_discover"
        /\ \A i \in 1..Len(tasks[t].log) : tasks[t].log[i].type # "discovery_result"
        /\ tasks[u].msg.type = "device_command"
        /\ \E i \in 1..Len(tasks[u].log) :
              /\ tasks[u].log[i].type = "command_response"
              /\ tasks[u].log[i].kind = "struct"
              /\ tasks[u].log[i].fate = "enq"

\* The readAttribute goroutines started by commission_device handlers.
LabelReaders ==
    { u \in Tasks : /\ tasks[u].msg.type = "commission_device"
                    /\ Told(u)[1].info = "reading" }

\* C31: a commission_device handler that has sent its status with success
\* true and has gone on has started one label read, as a goroutine of its
\* own; no label read exists before that status is sent, hence none after a
\* handler's failure status alone; there is never more than one; a label
\* read sends no commissioning_status, and one whose invocation failed sends
\* only log lines: no attribute_update and no error event.
C31_OneLabelRead ==
    /\ Cardinality(LabelReaders) <= 1
    /\ \A t \in Paired :
          LET tk == tasks[t]
              succeeded == \E i \in 1..Len(tk.log) :
                              /\ tk.log[i].type = "commissioning_status"
                              /\ tk.log[i].success = "true"
                              /\ tk.log[i].fate # "panic"
          IN
          /\ (succeeded /\ tk.pc # "go_read") => Cardinality(LabelReaders) = 1
          /\ ~succeeded => LabelReaders = {}
    /\ \A u \in LabelReaders :
          LET sent == Sends(u) IN
          /\ tasks[u].runs <= 1
          /\ \A i \in 1..Len(sent) : sent[i].type # "commissioning_status"
          /\ (tasks[u].runs = 1 /\ tasks[u].res.err)
             => \A i \in 1..Len(sent) :
                   sent[i] = [type |-> "commissioning_log", kind |-> "text",
                              success |-> "na"]

\* A label read has failed and has said so in a log line, after the handler
\* sent its success status.
C31_Witness ==
    \E u \in LabelReaders :
        /\ tasks[u].runs = 1
        /\ tasks[u].res.err
        /\ tasks[u].pc = "done"
        /\ Len(tasks[u].log) = 2
        /\ \E t \in Paired :
              \E i \in 1..Len(tasks[t].log) :
                 /\ tasks[t].log[i].type = "commissioning_status"
                 /\ tasks[t].log[i].success = "true"
                 /\ tasks[t].log[i].fate = "enq"

\* C32: a device_command that passed validation and whose subprocess was run
\* has an argument vector that starts with the lower-cased cluster and command
\* and ends with the node id and endpoint 1; for LevelControl MoveToLevel with
\* a numeric level L the vector is exactly levelcontrol, movetolevel, L, the
\* numeric transitionTime T (0 when there is none), 0, 0, node id, 1; with a
\* level that is missing or not a number the goroutine sends a
\* command_response of success false and runs no subprocess.
IsMoveToLevel(p) == p.cluster = "LevelControl" /\ p.command = "MoveToLevel"
C32_CommandArgumentVector ==
    \A t \in Tasks :
      LET tk == tasks[t]
          p == tk.msg.payload
          n == Len(tk.argv)
      IN (tk.msg.type = "device_command" /\ ~DecodeFails(p) /\ ~DeviceCommandMissing(p)) =>
           /\ tk.runs > 0 =>
                /\ n >= 4
                /\ tk.argv[1] = ToLower(p.cluster) /\ tk.argv[2] = ToLower(p.command)
                /\ tk.argv[n - 1] = p.nodeId /\ tk.argv[n] = "1"
           /\ IsMoveToLevel(p) /\ p.level.t = "number" /\ tk.runs > 0 =>
                tk.argv = <<"levelcontrol", "movetolevel", JsonText(p.level),
                            IF p.transitionTime.t = "number"
                            THEN JsonText(p.transitionTime) ELSE "0",
                            "0", "0", p.nodeId, "1">>
           /\ IsMoveToLevel(p) /\ p.level.t # "number" =>
                /\ tk.runs = 0
                /\ Len(Sends(t)) = 1
                /\ Sends(t)[1].type = "command_response" /\ Sends(t)[1].success = "false"
\* C33: no step but the subprocess's own exit ends a running subscription,
\* and no step but the end of its stream stops one of its two readers: a
\* step that removes the session (the reader's exit, the registry's removal,
\* the writer's termination) leaves the subscription's goroutines as they
\* are, a subprocess stops running only where cmd.Wait() returns, and a
\* reader in its loop stays there until its stream ends.
SessionRemovalStep ==
    \/ clients' # clients
    \/ closed' # closed
    \/ reader' # reader
    \/ writer' # writer
    \/ conn' # conn
C33_SubscriptionOutlivesSession ==
    [][\A t \in Tasks :
         LET tk == tasks[t]
             after == tasks'[t]
         IN tk.msg.type = "subscribe_attribute" =>
              /\ SessionRemovalStep => after = tk
              /\ (tk.proc = "running" /\ after.proc # "running")
                   => (tk.pc = "sub_wait" /\ after.proc = "exited")
              /\ tk.pc \in {"sub_stdout", "sub_stderr"}
                   => /\ after.pc \in {tk.pc, "sub_wait", "return", "done"}
                      /\ ~crashed']_vars
\* The result list of the scan loop after the first n lines of the output.
ListAfter(n) == ScanLines(SubSeq(arg, 1, n), NilDevice, <<>>, <<>>).devices

\* C34: line after line, the parser's result list only grows at its end and
\* by one record at a time, every record already in it stays as it was, a
\* line that is not a block marker leaves the list as it is, and the records
\* the scan loop appended are, unchanged, the first records of the result.
C34_AppendedRecordsFixed ==
    (ret # <<>> /\ arg \in OutTexts)
    => /\ \A n \in 0..(Len(arg) - 1) :
            LET before == ListAfter(n)
                after == ListAfter(n + 1)
            IN /\ SubSeq(after, 1, Len(before)) = before
               /\ Len(after) <= Len(before) + 1
               /\ arg[n + 1] # NodeLine => Len(after) = Len(before)
       /\ SubSeq(ret[1].devices, 1, Len(ListAfter(Len(arg)))) = ListAfter(Len(arg))

\* A first block with discriminator 1234 was appended at the second marker;
\* the lines of the second block (another discriminator, a vendor id) and a
\* third marker followed, and the first record came back as it was appended.
C34_Witness ==
    /\ ret # <<>>
    /\ arg = <<NodeLine, Line(TRUE, "Long Discriminator", "1234"),
               NodeLine, Line(TRUE, "Long Discriminator", "5678"),
               Line(TRUE, "Vendor ID", "65521"), NodeLine>>
    /\ ListAfter(3) = <<ret[1].devices[1]>>
    /\ Len(ret[1].devices) = 2
    /\ ret[1].devices[1].Discriminator = "1234" /\ ret[1].devices[1].VendorID = ""
\* The stdout reader after the first n lines of the stream.
ReaderAfter(n) == ScanReport(SubSeq(arg, 1, n), 0, FALSE, <<>>)
\* The ReportDataMessage marker lines among the first n lines.
MarkersIn(n) == { j \in 1..n : arg[j] = "report" }

\* C35: at every point of a stream, a data line or a terminator read while
\* the reader is idle sends nothing and leaves it idle; the updates sent so
\* far are never more than the marker lines read so far; and of two data
\* lines with no marker between them the second sends nothing.
C35_IdleLinesEmitNothing ==
    (ret # <<>> /\ arg \in ReportStreams)
    => /\ \A n \in 0..Len(arg) :
            Len(ReaderAfter(n).updates) <= Cardinality(MarkersIn(n))
       /\ \A n \in 0..(Len(arg) - 1) :
            (~ReaderAfter(n).inBlock /\ arg[n + 1] \in {"data", "end"})
            => /\ ReaderAfter(n + 1).updates = ReaderAfter(n).updates
               /\ ~ReaderAfter(n + 1).inBlock
       /\ \A i \in 1..Len(arg) : \A j \in (i + 1)..Len(arg) :
            (/\ arg[i] = "data" /\ arg[j] = "data"
             /\ \A m \in (i + 1)..(j - 1) : arg[m] # "report")
            => \A k \in 1..Len(ret[1].updates) : ret[1].updates[k] # j
       /\ ret[1] = ReaderAfter(Len(arg))

\* A data line and a terminator before any marker, then a block with two
\* data lines: the only update is the one of the block's first data line.
C35_Witness ==
    /\ ret # <<>>
    /\ arg = <<"data", "end", "report", "data", "data">>
    /\ ~ReaderAfter(2).inBlock /\ ReaderAfter(2).updates = <<>>
    /\ ret[1].updates = <<4>>
\* The discovery_result sends of goroutine t, made or ahead of it.
ResultSends(t) == { i \in 1..Len(Told(t)) : Told(t)[i].type = "discovery_result" }

\* C36: a discover goroutine sends no discovery_result before its run has
\* returned and exactly one after it, whether the run exited 0, exited
\* otherwise, could not be started or ran into the deadline.
C36_OneDiscoveryResult ==
    \A t \in Tasks :
        tasks[t].msg.type = "discover_devices"
        => IF tasks[t].pc \in {"run_discover", "wait_discover"}
           THEN ResultSends(t) = {}
           ELSE Cardinality(ResultSends(t)) = 1
\* The commissioning_status sends of goroutine t, made or ahead of it.
StatusSends(t) == { i \in 1..Len(Told(t)) : Told(t)[i].type = "commissioning_status" }

\* C37: a commission_device handler that passed validation and has run the
\* pairing command never has more than one commissioning_status to its name,
\* and once its runs have returned and it has come to its end it has exactly
\* one: it does not return in silence, and a status with success true is not
\* followed by another status.
C37_OneCommissioningStatus ==
    \A t \in Paired :
        /\ Cardinality(StatusSends(t)) <= 1
        /\ tasks[t].pc \in {"return", "done"} => Cardinality(StatusSends(t)) = 1
\* Hub.Run is about to execute close(client.send) for session c.
ClosesQueue(c) ==
    hubAt.op = "unregister" /\ hubAt.c = c /\ hubAt.step = "writing"

\* C38: a session's queue passes from open to closed only in the registry's
\* removal step for that session, which finds the session in the registry,
\* admitted and with its queue still open, and takes it out of the registry;
\* no other step changes whether a queue is closed, a closed queue never
\* reopens, a removal request for a session that is not in the registry
\* leaves every queue as it is, and a session that was never admitted has
\* its queue open.
C38_QueueClosedAtMostOnce ==
    [][\A c \in Clients :
         /\ (ClosesQueue(c) /\ hubAt'.step = "written")
              => (~closed[c] /\ c \in clients /\ c \notin clients' /\ conn[c] # "none")
         /\ closed'[c] # closed[c]
              => (ClosesQueue(c) /\ hubAt'.step = "written" /\ closed'[c])
         /\ (hubAt.op = "unregister" /\ hubAt.c = c /\ c \notin clients)
              => closed' = closed
         /\ conn'[c] = "none" => ~closed'[c]
         /\ closed'[c] => c \notin clients']_vars

\* One session has been removed and its queue closed, the other is still
\* registered with its queue open, and Hub.Run is back at its select.
C38_Witness ==
    /\ closed[1] /\ 1 \notin clients
    /\ ~closed[2] /\ 2 \in clients
    /\ hubAt = Idle
\* The sessions whose reader and writer have been started.
Started == { c \in Clients : reader[c] # "off" \/ writer[c] # "off" }
\* The sessions that have been started and have not been removed.
Live == { c \in Started : ~closed[c] }

\* C39: the registry holds exactly the sessions that have been admitted and
\* not removed: a session whose reader and writer have been started is in
\* the registry until it is removed, so the registry's size is the number of
\* live sessions; a removal request being processed is for a session that
\* was admitted; and a removed session is not in the registry.
C39_RegistryIsLiveSessions ==
    /\ clients = Live
    /\ Cardinality(clients) = Cardinality(Live)
    /\ hubAt.op = "unregister" => hubAt.c \in clients \/ closed[hubAt.c]
    /\ \A c \in Clients : closed[c] => c \notin clients
====
